---------------------------- MODULE Spec2Model ----------------------------
(***************************************************************************)
(* A model of the deformation core of nouveau-flux:                        *)
(*   - parsePath            (src/src/lib/pathParser.ts)                    *)
(*   - EldritchFocusEngine  (src/unnamed/part_006)                         *)
(*   - FrameAnimator        (src/src/lib/frameAnimator.ts, second class)   *)
(*   - computeInfluenceMap  (src/src/lib/anchorInfluence.ts)               *)
(*   - PBDSolver            (src/src/lib/pbdSolver.ts)                     *)
(*   - the influence effect (src/src/components/AnimatedFrame.tsx)         *)
(*   - handleExport         (src/src/components/ControlPanel.tsx)          *)
(*                                                                         *)
(* Numbers.  The program computes in IEEE doubles; the model computes in   *)
(* fixed point.  Path coordinates are kept in thirds (CoordScale), which   *)
(* makes the quadratic-to-cubic factor 2/3 exact.  A value that is not a   *)
(* number in the program (undefined + number, string + number, and what    *)
(* a Float32Array makes of it) is the absorbing value NaN.                 *)
(***************************************************************************)
EXTENDS Integers, Sequences, FiniteSets, TLC

VARIABLES
    tokens,     \* parsePath: the token list the tokenizer produced
    parser,     \* parsePath: its locals (i, commands, coordsList, curX, ...)
    emitted,    \* history: the argument group the last loop iteration consumed
    parsedPath, \* the ParsedPath an engine or an animator was constructed with
    engine,     \* the EldritchFocusEngine's fields, NullEngine while there is none
    lastGen,    \* history: the arguments of the latest generateSchedule call
    animator,   \* the FrameAnimator's fields, NullAnimator while there is none
    frames,     \* the browser's pending animation-frame callbacks (handles)
    now,        \* the browser's clock, in thirtieths of a second
    lastOp,     \* history: the kind of the latest operation on the animator
    stopped,    \* history: stop() has returned and start() was not called since
    zeroRender, \* history: the buffer renderAtTime(0) left, while renders follow
    influenceMap, \* the latest computeInfluenceMap call: arguments and result
    recomputes, \* AnimatedFrame: its props and its influence recomputations
    exportRun,  \* the export dialog's handleExport: its locals and position
    solver,     \* the PBDSolver's fields, NullSolver while there is none
    solverOps,  \* the number of calls made on the solver
    lastCall    \* history: the latest call on the solver and the state before it

parserVars == <<tokens, parser, emitted>>

engineVars == <<parsedPath, engine, lastGen>>

animatorVars == <<animator, frames, now, lastOp, stopped, zeroRender>>

\* The influence map and the components around the animator.
fieldVars == <<influenceMap, recomputes, exportRun>>

solverVars == <<solver, solverOps, lastCall>>

vars == <<tokens, parser, emitted, parsedPath, engine, lastGen,
          animator, frames, now, lastOp, stopped, zeroRender,
          influenceMap, recomputes, exportRun, solver, solverOps, lastCall>>

\* The values of the variables of a component that does not exist.
NoPath == [commands |-> <<>>, coords |-> <<>>]

NullEngine == [anchorInfluence |-> <<>>]

NoGen == [explicit |-> FALSE, calc |-> FALSE]

NullAnimator == [running |-> FALSE]

NoRender == [rendered |-> FALSE]

\* The animator's variables while no animator exists.
NoAnimator ==
    /\ animator = NullAnimator
    /\ frames = {}
    /\ now = 0
    /\ lastOp = "other"
    /\ stopped = FALSE
    /\ zeroRender = NoRender

NoMap == [computed |-> FALSE]

NoRecomputes == [started |-> 0, pending |-> {}]

NoExport == [phase |-> "idle", ended |-> "none"]

\* The influence map and the components while there are none.
NoField ==
    /\ influenceMap = NoMap
    /\ recomputes = NoRecomputes
    /\ exportRun = NoExport

NullSolver == [particles |-> <<>>]

NoCall == [op |-> "none"]

\* The solver's variables while no solver exists.
NoSolver ==
    /\ solver = NullSolver
    /\ solverOps = 0
    /\ lastCall = NoCall

(***************************************************************************)
(* parsePath                                                               *)
(***************************************************************************)

\* Coordinates are stored multiplied by CoordScale.
CoordScale == 3

\* The value of an expression that is not a number.
NaN == -999999

Add(a, b) == IF a = NaN \/ b = NaN THEN NaN ELSE a + b

Sub(a, b) == IF a = NaN \/ b = NaN THEN NaN ELSE a - b

\* (2/3) * a, exact on the multiples of 3 the parser applies it to.
TwoThirds(a) == IF a = NaN THEN NaN ELSE (2 * a) \div 3

CMD_M == 0
CMD_L == 1
CMD_C == 2
CMD_Z == 5

\* The command letters the tokenizer recognises (A/a behave as T/t: unknown).
UpperLetters == {"M", "L", "H", "V", "C", "S", "Q", "T", "Z"}

toUpperCase(l) ==
    CASE l = "m" -> "M" [] l = "l" -> "L" [] l = "h" -> "H" [] l = "v" -> "V"
      [] l = "c" -> "C" [] l = "s" -> "S" [] l = "q" -> "Q" [] l = "t" -> "T"
      [] l = "z" -> "Z" [] OTHER -> l

toLowerCase(l) ==
    CASE l = "M" -> "m" [] l = "L" -> "l" [] l = "H" -> "h" [] l = "V" -> "v"
      [] l = "C" -> "c" [] l = "S" -> "s" [] l = "Q" -> "q" [] l = "T" -> "t"
      [] l = "Z" -> "z" [] OTHER -> l

Letters == UpperLetters \cup {toLowerCase(l) : l \in UpperLetters}

CmdToken(l) == [isCmd |-> TRUE, letter |-> l, value |-> 0]

NumToken(v) == [isCmd |-> FALSE, letter |-> "", value |-> v]

\* The origin offset (transformOffset.tx, transformOffset.ty), in thirds.
OffsetX == 5 * CoordScale
OffsetY == 7 * CoordScale

\* tokens[j] used as a number: undefined past the end and a command letter
\* (a string) both make the sum they enter a non-number.
TokenNumber(j) ==
    IF j > Len(tokens) THEN NaN
    ELSE IF tokens[j].isCmd THEN NaN
    ELSE tokens[j].value * CoordScale

ParserInit ==
    [pc |-> "loop", i |-> 1, commands |-> <<>>, coordsList |-> <<>>,
     curX |-> 0, curY |-> 0, startX |-> 0, startY |-> 0,
     lastCmd |-> "", lastControlX |-> 0, lastControlY |-> 0,
     firstCommand |-> TRUE]

NoGroup == [letter |-> "", first |-> FALSE, n |-> 0, args |-> <<>>,
            curX |-> 0, curY |-> 0, lcX |-> 0, lcY |-> 0, out |-> <<>>,
            cmds |-> <<>>, at |-> 0, prev |-> ""]

\* A command letter: Z is emitted at once, every letter becomes lastCmd.
CommandLetter(p, token) ==
    LET q == IF toUpperCase(token.letter) = "Z"
             THEN [p EXCEPT !.commands = Append(@, CMD_Z),
                            !.curX = p.startX, !.curY = p.startY]
             ELSE p
    IN [q EXCEPT !.lastCmd = token.letter, !.i = @ + 1]

isRelativeCmd(lastCmd) == lastCmd = toLowerCase(lastCmd)

CaseM(p) ==
    LET isRelative == isRelativeCmd(p.lastCmd)
        baseX == IF isRelative THEN p.curX ELSE 0
        baseY == IF isRelative THEN p.curY ELSE 0
        useOffset == ~isRelative \/ p.firstCommand
        x == Add(Add(TokenNumber(p.i), baseX), IF useOffset THEN OffsetX ELSE 0)
        y == Add(Add(TokenNumber(p.i + 1), baseY), IF useOffset THEN OffsetY ELSE 0)
    IN [p EXCEPT !.commands = Append(@, CMD_M),
                 !.coordsList = @ \o <<x, y>>,
                 !.curX = x, !.startX = x, !.curY = y, !.startY = y,
                 !.lastControlX = x, !.lastControlY = y,
                 !.i = @ + 2, !.firstCommand = FALSE,
                 !.lastCmd = IF isRelative THEN "l" ELSE "L"]

CaseL(p) ==
    LET isRelative == isRelativeCmd(p.lastCmd)
        x == Add(TokenNumber(p.i), IF isRelative THEN p.curX ELSE 0)
        y == Add(TokenNumber(p.i + 1), IF isRelative THEN p.curY ELSE 0)
    IN [p EXCEPT !.commands = Append(@, CMD_L),
                 !.coordsList = @ \o <<x, y>>,
                 !.curX = x, !.curY = y,
                 !.lastControlX = x, !.lastControlY = y,
                 !.i = @ + 2]

CaseHBad(p) ==
    LET x == Add(TokenNumber(p.i), IF isRelativeCmd(p.lastCmd) THEN p.curX ELSE 0)
    IN [p EXCEPT !.commands = Append(@, CMD_L),
                 !.coordsList = @ \o <<x>>,
                 !.curX = x,
                 !.lastControlX = x, !.lastControlY = p.curY,
                 !.i = @ + 1]

CaseH(p) ==
    LET x == Add(TokenNumber(p.i), IF isRelativeCmd(p.lastCmd) THEN p.curX ELSE 0)
    IN [p EXCEPT !.commands = Append(@, CMD_L),
                 !.coordsList = @ \o <<x, p.curY>>,
                 !.curX = x,
                 !.lastControlX = x, !.lastControlY = p.curY,
                 !.i = @ + 1]

CaseV(p) ==
    LET y == Add(TokenNumber(p.i), IF isRelativeCmd(p.lastCmd) THEN p.curY ELSE 0)
    IN [p EXCEPT !.commands = Append(@, CMD_L),
                 !.coordsList = @ \o <<p.curX, y>>,
                 !.curY = y,
                 !.lastControlX = p.curX, !.lastControlY = y,
                 !.i = @ + 1]

CaseC(p) ==
    LET isRelative == isRelativeCmd(p.lastCmd)
        baseX == IF isRelative THEN p.curX ELSE 0
        baseY == IF isRelative THEN p.curY ELSE 0
        x1 == Add(TokenNumber(p.i), baseX)
        y1 == Add(TokenNumber(p.i + 1), baseY)
        x2 == Add(TokenNumber(p.i + 2), baseX)
        y2 == Add(TokenNumber(p.i + 3), baseY)
        x == Add(TokenNumber(p.i + 4), baseX)
        y == Add(TokenNumber(p.i + 5), baseY)
    IN [p EXCEPT !.commands = Append(@, CMD_C),
                 !.coordsList = @ \o <<x1, y1, x2, y2, x, y>>,
                 !.curX = x, !.curY = y,
                 !.lastControlX = x2, !.lastControlY = y2,
                 !.i = @ + 6]

CaseS(p) ==
    LET isRelative == isRelativeCmd(p.lastCmd)
        baseX == IF isRelative THEN p.curX ELSE 0
        baseY == IF isRelative THEN p.curY ELSE 0
        reflect == p.lastCmd \in {"C", "c", "S", "s"}
        cx1 == IF reflect THEN Sub(Add(p.curX, p.curX), p.lastControlX) ELSE p.curX
        cy1 == IF reflect THEN Sub(Add(p.curY, p.curY), p.lastControlY) ELSE p.curY
        x2 == Add(TokenNumber(p.i), baseX)
        y2 == Add(TokenNumber(p.i + 1), baseY)
        x == Add(TokenNumber(p.i + 2), baseX)
        y == Add(TokenNumber(p.i + 3), baseY)
    IN [p EXCEPT !.commands = Append(@, CMD_C),
                 !.coordsList = @ \o <<cx1, cy1, x2, y2, x, y>>,
                 !.curX = x, !.curY = y,
                 !.lastControlX = x2, !.lastControlY = y2,
                 !.i = @ + 4]

CaseQ(p) ==
    LET isRelative == isRelativeCmd(p.lastCmd)
        baseX == IF isRelative THEN p.curX ELSE 0
        baseY == IF isRelative THEN p.curY ELSE 0
        x1 == Add(TokenNumber(p.i), baseX)
        y1 == Add(TokenNumber(p.i + 1), baseY)
        x == Add(TokenNumber(p.i + 2), baseX)
        y == Add(TokenNumber(p.i + 3), baseY)
        cx1 == Add(p.curX, TwoThirds(Sub(x1, p.curX)))
        cy1 == Add(p.curY, TwoThirds(Sub(y1, p.curY)))
        cx2 == Add(x, TwoThirds(Sub(x1, x)))
        cy2 == Add(y, TwoThirds(Sub(y1, y)))
    IN [p EXCEPT !.commands = Append(@, CMD_C),
                 !.coordsList = @ \o <<cx1, cy1, cx2, cy2, x, y>>,
                 !.curX = x, !.curY = y,
                 !.lastControlX = x1, !.lastControlY = y1,
                 !.i = @ + 4]

\* case 'Z': break -- nothing is consumed.
CaseZ(p) == p

\* default: skip one token.
CaseDefault(p) == [p EXCEPT !.i = @ + 1]

\* A number token: processed by the last command letter.
NumberToken(p) ==
    LET isRelative == isRelativeCmd(p.lastCmd)
        cmd == toUpperCase(p.lastCmd)
        q == CASE cmd = "M" -> CaseM(p)
               [] cmd = "L" -> CaseL(p)
               [] cmd = "H" -> CaseH(p)
               [] cmd = "V" -> CaseV(p)
               [] cmd = "C" -> CaseC(p)
               [] cmd = "S" -> CaseS(p)
               [] cmd = "Q" -> CaseQ(p)
               [] cmd = "Z" -> CaseZ(p)
               [] OTHER -> CaseDefault(p)
    IN IF cmd # "M"
       THEN [q EXCEPT !.lastCmd = IF isRelative THEN toLowerCase(cmd) ELSE cmd]
       ELSE q

\* What the iteration at p consumed and pushed (history only).
GroupOf(p, q) ==
    [letter |-> p.lastCmd, first |-> p.firstCommand, n |-> q.i - p.i,
     args |-> [k \in 1..(q.i - p.i) |-> TokenNumber(p.i + k - 1)],
     curX |-> p.curX, curY |-> p.curY,
     lcX |-> p.lastControlX, lcY |-> p.lastControlY,
     out |-> SubSeq(q.coordsList, Len(p.coordsList) + 1, Len(q.coordsList)),
     cmds |-> SubSeq(q.commands, Len(p.commands) + 1, Len(q.commands)),
     at |-> p.i, prev |-> ""]

\* The command letter that was processed before the coming group (history
\* only): Z at its letter, any other letter at its latest group of numbers.
PrevLetter(token) ==
    IF token.isCmd /\ toUpperCase(token.letter) = "Z" THEN "Z"
    ELSE IF emitted.letter # "" THEN toUpperCase(emitted.letter)
    ELSE emitted.prev

\* One iteration of the token loop.
ParseStep ==
    /\ parser.pc = "loop"
    /\ parser.i <= Len(tokens)
    /\ LET token == tokens[parser.i]
       IN IF token.isCmd
          THEN /\ parser' = CommandLetter(parser, token)
               /\ emitted' = [NoGroup EXCEPT !.prev = PrevLetter(token)]
          ELSE /\ parser' = NumberToken(parser)
               /\ emitted' = [GroupOf(parser, NumberToken(parser))
                                  EXCEPT !.prev = PrevLetter(token)]
    /\ UNCHANGED <<tokens, engineVars, animatorVars, fieldVars, solverVars>>

\* The loop ends and parsePath returns { commands, coords }.
ParseReturn ==
    /\ parser.pc = "loop"
    /\ parser.i > Len(tokens)
    /\ parser' = [parser EXCEPT !.pc = "returned"]
    /\ UNCHANGED <<tokens, emitted, engineVars, animatorVars,
                   fieldVars, solverVars>>

(***************************************************************************)
(* The inputs of parsePath: a leading move group (or none), then up to     *)
(* MaxGroups groups of a command letter and its numbers.  The k-th token   *)
(* of the list, when a number, has the value k.                            *)
(***************************************************************************)
MaxGroups == 2

Arity(l) ==
    LET u == toUpperCase(l)
    IN CASE u = "M" -> 2 [] u = "L" -> 2 [] u = "H" -> 1 [] u = "V" -> 1
         [] u = "C" -> 6 [] u = "S" -> 4 [] u = "Q" -> 4 [] u = "T" -> 2
         [] OTHER -> 0

\* A group is <<letter, number of numbers after it>>: the exact count, one
\* short, or (M and L only) two argument groups.
GroupShapes ==
    {<<l, Arity(l)>> : l \in Letters}
      \cup {<<l, Arity(l) - 1>> : l \in {"L", "l", "C", "S"}}
      \cup {<<l, 1>> : l \in {"Z", "z"}}
      \cup {<<l, 4>> : l \in {"M", "L", "l"}}

LeadShapes == {<<"M", 2>>, <<"m", 2>>, <<"M", 4>>, <<"m", 4>>, <<"", 1>>}

RECURSIVE Flatten(_, _)
Flatten(shapes, pos) ==
    IF shapes = <<>> THEN <<>>
    ELSE LET l == shapes[1][1]
             n == shapes[1][2]
             head == (IF l = "" THEN <<>> ELSE <<CmdToken(l)>>)
             start == pos + Len(head)
             nums == [k \in 1..n |-> NumToken(start + k - 1)]
         IN head \o nums \o Flatten(Tail(shapes), start + n)

ShapeLists ==
    UNION {[1..n -> GroupShapes] : n \in 0..MaxGroups}

PathInputs ==
    {Flatten(<<lead>> \o rest, 1) : lead \in LeadShapes, rest \in ShapeLists}

InitParse ==
    /\ tokens \in PathInputs
    /\ parser = ParserInit
    /\ emitted = NoGroup
    /\ parsedPath = NoPath
    /\ engine = NullEngine
    /\ lastGen = NoGen
    /\ NoAnimator
    /\ NoField
    /\ NoSolver

NextParse ==
    \/ ParseStep
    \/ ParseReturn

SpecParse == InitParse /\ [][NextParse]_vars

(***************************************************************************)
(* EldritchFocusEngine                                                     *)
(*                                                                         *)
(* Times are in hundredths of a second, weights, directions, intensities   *)
(* and speeds in hundredths, influence values in ten-thousandths           *)
(* (InfluenceOne).  A random number next() in [0, 1) is k / RngModulus;    *)
(* a path parameter is kept as that k.  Products of doubles are rounded    *)
(* down to the unit.                                                       *)
(***************************************************************************)

DEFAULT_LOOP_PERIOD == 1000

ANCHOR_CHECK_RADIUS == 5

\* 0.3
ANCHOR_INFLUENCE_THRESHOLD == 3000

\* Influence 1.0 (fully free).
InfluenceOne == 10000

\* SplitMix32, kept at 8 bits: the state and z are taken modulo RngModulus
\* where the program takes them modulo 2^32 (>>> 0), the shifts 16, 13, 16
\* become 4, 3, 4 and the constants are the low bytes of the program's.
RngModulus == 256

RngGamma == 185

RngMul1 == 107

RngMul2 == 53

RECURSIVE BitXor(_, _)
BitXor(a, b) ==
    IF a = 0 THEN b
    ELSE IF b = 0 THEN a
    ELSE ((a + b) % 2) + 2 * BitXor(a \div 2, b \div 2)

\* z after the three xor-shifts and two multiplications of next().
RngMix(state) ==
    LET z1 == BitXor(state, state \div 16)
        z2 == (z1 * RngMul1) % RngModulus
        z3 == BitXor(z2, z2 \div 8)
        z4 == (z3 * RngMul2) % RngModulus
    IN BitXor(z4, z4 \div 16)

RngMixTable == [st \in 0..(RngModulus - 1) |-> RngMix(st)]

\* new SeededRNG(seed): this.state = seed >>> 0
RngNew(seed) == seed % RngModulus

\* next(): the new state; the number returned is RngValue(new state) / RngModulus.
RngNext(state) == (state + RngGamma) % RngModulus

RngValue(state) == RngMixTable[state]

\* range(min, max) for the draw k: min + next() * (max - min)
RngRange(k, min, max) == min + ((k * (max - min)) \div RngModulus)

MotionStyles == <<"whip", "quiver", "strain", "thrash">>

\* weightedChoice(options, weights) for the draw k.
RECURSIVE WeightedScan(_, _, _)
WeightedScan(weights, i, r) ==
    IF i > Len(weights) THEN Len(weights)
    ELSE IF r - weights[i] * RngModulus <= 0 THEN i
    ELSE WeightedScan(weights, i + 1, r - weights[i] * RngModulus)

weightedChoice(k, weights) ==
    LET total == weights[1] + weights[2] + weights[3] + weights[4]
    IN IF total <= 0
       THEN MotionStyles[((k * Len(MotionStyles)) \div RngModulus) + 1]
       ELSE MotionStyles[WeightedScan(weights, 1, k * total)]

Max(a, b) == IF a >= b THEN a ELSE b

Min(a, b) == IF a <= b THEN a ELSE b

Abs(a) == IF a < 0 THEN -a ELSE a

\* Op applied to the value of v, with v evaluated once: a local constant of
\* the code whose value is used several times.
Bind(v, Op(_)) == CHOOSE result \in {Op(x) : x \in {v}} : TRUE

\* Math.sqrt on the squares the model's paths produce, rounded down.
Sqrt(n) == CHOOSE r \in 0..n : r * r <= n /\ (r + 1) * (r + 1) > n

\* The points of a path, as <<x, y>> pairs (coords.length / 2 of them).
NumPoints(path) == Len(path.coords) \div 2

\* computeArcLengths: the cumulative length at each point.  The model's
\* engine paths hold Move, Line and Close commands only.
RECURSIVE ArcWalk(_, _, _, _, _, _)
ArcWalk(path, ci, coordIdx, prevX, prevY, cumLength) ==
    IF ci > Len(path.commands) THEN <<>>
    ELSE LET cmd == path.commands[ci]
         IN IF cmd = CMD_M
            THEN <<cumLength>> \o
                 ArcWalk(path, ci + 1, coordIdx + 2,
                         path.coords[coordIdx], path.coords[coordIdx + 1], cumLength)
            ELSE IF cmd = CMD_L
            THEN LET x == path.coords[coordIdx]
                     y == path.coords[coordIdx + 1]
                     len == cumLength + Sqrt((x - prevX) * (x - prevX)
                                             + (y - prevY) * (y - prevY))
                 IN <<len>> \o ArcWalk(path, ci + 1, coordIdx + 2, x, y, len)
            ELSE ArcWalk(path, ci + 1, coordIdx, prevX, prevY, cumLength)

computeArcLengths(path) == ArcWalk(path, 1, 1, 0, 0, 0)

\* The total before Math.max(total, MIN_ARC_LENGTH); 0 stands for the
\* degenerate path, whose totalArcLength is MIN_ARC_LENGTH.
ArcTotal(path) ==
    LET arcs == computeArcLengths(path)
    IN IF arcs = <<>> THEN 0 ELSE arcs[Len(arcs)]

\* parsedPath.commands.includes(5)
IncludesClose(path) == \E ci \in DOMAIN path.commands : path.commands[ci] = CMD_Z

\* The operators below take the engine (eng) for the fields its constructor
\* stored: pointArcLengths, pointPositions, totalArcLength, isClosedPath.

\* tToPointIndex for t = k / RngModulus: the binary search, 0-based.
RECURSIVE BinarySearch(_, _, _, _, _)
BinarySearch(arcs, total, k, lo, hi) ==
    IF lo >= hi THEN lo
    ELSE LET mid == (lo + hi) \div 2
             below == IF total = 0
                      THEN k > 0
                      ELSE arcs[mid + 1] * RngModulus < k * total
         IN IF below
            THEN BinarySearch(arcs, total, k, mid + 1, hi)
            ELSE BinarySearch(arcs, total, k, lo, mid)

tToPointIndex(eng, k) ==
    LET arcs == eng.pointArcLengths
    IN BinarySearch(arcs, eng.totalArcLength, k, 0, Len(arcs) - 1)

\* pathDistance(t1, t2) < 0.15 for two eng parameters k1, k2.
TooClose(eng, k1, k2) ==
    LET d == Abs(k1 - k2)
        dist == IF eng.isClosedPath THEN Min(d, RngModulus - d) ELSE d
    IN dist * 100 < 15 * RngModulus

\* JavaScript's % on integers: the sign of the dividend.
JsMod(a, b) == IF a >= 0 THEN a % b ELSE -((-a) % b)

\* anchorInfluence[idx] < threshold, false for an index outside the array
\* (undefined < 0.3).
InfluenceBelow(influence, idx, threshold) ==
    idx >= 0 /\ idx < Len(influence) /\ influence[idx + 1] < threshold

\* The point indices isNearAnchor looks at around the point of pathT.
Neighbourhood(numPoints, pointIdx) ==
    {JsMod(pointIdx + offset + numPoints, numPoints) :
        offset \in (-ANCHOR_CHECK_RADIUS)..ANCHOR_CHECK_RADIUS}

\* A variant that tests the mapped point only, not the points around it.
isNearAnchorBad(eng, influence, k) ==
    InfluenceBelow(influence, tToPointIndex(eng, k), ANCHOR_INFLUENCE_THRESHOLD)

isNearAnchor(eng, influence, k) ==
    \E pointIdx \in {tToPointIndex(eng, k)} :
        \E idx \in Neighbourhood(Len(influence), pointIdx) :
            InfluenceBelow(influence, idx, ANCHOR_INFLUENCE_THRESHOLD)

\* The do-while that picks a focus position: returns the rng state, the
\* position and the number of attempts made.
MaxAttempts == 20

RECURSIVE PickPosition(_, _, _, _, _)
PickPosition(eng, influence, used, rng, attempts) ==
    Bind(RngNext(rng), LAMBDA rng1 :
        IF /\ attempts + 1 < MaxAttempts
           /\ \/ isNearAnchor(eng, influence, RngValue(rng1))
              \/ \E j \in DOMAIN used : TooClose(eng, used[j], RngValue(rng1))
        THEN PickPosition(eng, influence, used, rng1, attempts + 1)
        ELSE [rng |-> rng1, pathT |-> RngValue(rng1), attempts |-> attempts + 1])

\* A variant whose least focus duration is 0.05 s.
ClampParamsBad(params) ==
    LET minFoci == Max(1, params.minFoci)
        focusDurationMin == Max(5, params.focusDurationMin)
        restDurationMin == Max(0, params.restDurationMin)
    IN [minFoci |-> minFoci,
        maxFoci |-> Max(minFoci, params.maxFoci),
        focusDurationMin |-> focusDurationMin,
        focusDurationMax |-> Max(focusDurationMin, params.focusDurationMax),
        restDurationMin |-> restDurationMin,
        restDurationMax |-> Max(restDurationMin, params.restDurationMax),
        weights |-> [j \in 1..4 |-> Max(0, params.motionWeights[j])],
        propagationSpeed |-> params.propagationSpeed]

\* The clamps at the head of generateSchedule.
ClampParams(params) ==
    LET minFoci == Max(1, params.minFoci)
        focusDurationMin == Max(10, params.focusDurationMin)
        restDurationMin == Max(0, params.restDurationMin)
    IN [minFoci |-> minFoci,
        maxFoci |-> Max(minFoci, params.maxFoci),
        focusDurationMin |-> focusDurationMin,
        focusDurationMax |-> Max(focusDurationMin, params.focusDurationMax),
        restDurationMin |-> restDurationMin,
        restDurationMax |-> Max(restDurationMin, params.restDurationMax),
        weights |-> [j \in 1..4 |-> Max(0, params.motionWeights[j])],
        propagationSpeed |-> params.propagationSpeed]

FocusEnd(f) == f.startTime + f.rampDuration + f.sustainDuration + f.decayDuration

\* The focus built at the position picked; i is its 0-based index in the wave.
\* The three parts of the duration add up to it, as 0.2 + 0.5 + 0.3 = 1 makes
\* them do in the code: the decay is the part the other two leave.
FocusAt(c, pick, i, currentTime) ==
    LET r1 == RngNext(pick.rng)
        style == weightedChoice(RngValue(r1), c.weights)
        r2 == RngNext(r1)
        duration == RngRange(RngValue(r2), c.focusDurationMin, c.focusDurationMax)
        r3 == RngNext(r2)
        stagger == i * RngRange(RngValue(r3), 10, 30)
        r4 == RngNext(r3)
        r5 == RngNext(r4)
        r6 == RngNext(r5)
        r7 == RngNext(r6)
    IN [rng |-> r7,
        focus |-> [pathT |-> pick.pathT,
                   startTime |-> currentTime + stagger,
                   rampDuration |-> (duration * 20) \div 100,
                   sustainDuration |-> (duration * 50) \div 100,
                   decayDuration |-> duration - (duration * 20) \div 100
                                             - (duration * 50) \div 100,
                   motionStyle |-> style,
                   direction |-> RngRange(RngValue(r4), -100, 100),
                   frequency |-> RngRange(RngValue(r5), 800, 2000),
                   intensity |-> RngRange(RngValue(r6), 70, 130),
                   waveSpeed |-> (c.propagationSpeed
                                    * RngRange(RngValue(r7), 80, 120)) \div 100,
                   attempts |-> pick.attempts]]

\* One focus of a wave (the body of the for loop).
MakeFocus(eng, influence, c, used, rng, i, currentTime) ==
    Bind(PickPosition(eng, influence, used, rng, 0),
         LAMBDA pick : FocusAt(c, pick, i, currentTime))

\* The for loop over the foci of a wave, from index i on; wave holds the rng
\* state and waveFoci.
RECURSIVE WaveFoci(_, _, _, _, _, _, _)
WaveFoci(eng, influence, c, wave, i, numFoci, currentTime) ==
    IF i >= numFoci THEN wave
    ELSE Bind(MakeFocus(eng, influence, c,
                        [j \in DOMAIN wave.foci |-> wave.foci[j].pathT],
                        wave.rng, i, currentTime),
              LAMBDA made :
                  Bind([rng |-> made.rng, foci |-> Append(wave.foci, made.focus)],
                       LAMBDA next :
                           WaveFoci(eng, influence, c, next, i + 1, numFoci,
                                    currentTime)))

RECURSIVE MaxOf(_)
MaxOf(seq) == IF Len(seq) = 1 THEN seq[1] ELSE Max(seq[1], MaxOf(Tail(seq)))

\* A variant whose rest period starts when the first focus of the wave ends.
AfterWaveBad(c, loop, wave) ==
    LET maxFocusEnd == FocusEnd(wave.foci[1])
        r2 == RngNext(wave.rng)
        restDuration == RngRange(RngValue(r2), c.restDurationMin, c.restDurationMax)
    IN [rng |-> r2,
        currentTime |-> maxFocusEnd + restDuration,
        foci |-> loop.foci \o wave.foci,
        restPeriods |-> Append(loop.restPeriods,
                               [start |-> maxFocusEnd,
                                end |-> maxFocusEnd + restDuration])]

\* The rest of an iteration of the while loop once its wave is generated.
AfterWave(c, loop, wave) ==
    LET maxFocusEnd == MaxOf([j \in DOMAIN wave.foci |-> FocusEnd(wave.foci[j])])
        r2 == RngNext(wave.rng)
        restDuration == RngRange(RngValue(r2), c.restDurationMin, c.restDurationMax)
    IN [rng |-> r2,
        currentTime |-> maxFocusEnd + restDuration,
        foci |-> loop.foci \o wave.foci,
        restPeriods |-> Append(loop.restPeriods,
                               [start |-> maxFocusEnd,
                                end |-> maxFocusEnd + restDuration])]

\* One iteration of the while loop; loop holds rng, currentTime, foci and
\* restPeriods.
WaveStep(eng, influence, c, loop) ==
    LET r1 == RngNext(loop.rng)
        numFoci == c.minFoci
                     + ((RngValue(r1) * (100 * (c.maxFoci - c.minFoci) + 99))
                          \div (100 * RngModulus))
    IN Bind(WaveFoci(eng, influence, c, [rng |-> r1, foci |-> <<>>], 0, numFoci,
                     loop.currentTime),
            LAMBDA wave : AfterWave(c, loop, wave))

\* The while loop of generateSchedule: waves and rest periods until
\* currentTime reaches loopPeriod.
\* The iterations are evaluated in blocks: WaveBlock(.., n) is the next n
\* iterations, fewer if the loop ends before.
RECURSIVE WaveBlock(_, _, _, _, _, _)
WaveBlock(eng, influence, c, loopPeriod, loop, n) ==
    IF ~(loop.currentTime < loopPeriod) THEN loop
    ELSE IF n = 1 THEN WaveStep(eng, influence, c, loop)
    ELSE Bind(WaveBlock(eng, influence, c, loopPeriod, loop, n \div 2),
              LAMBDA half :
                  WaveBlock(eng, influence, c, loopPeriod, half, n - n \div 2))

RECURSIVE Waves(_, _, _, _, _)
Waves(eng, influence, c, loopPeriod, loop) ==
    IF ~(loop.currentTime < loopPeriod) THEN loop
    ELSE Bind(WaveBlock(eng, influence, c, loopPeriod, loop, 16),
              LAMBDA next : Waves(eng, influence, c, loopPeriod, next))

\* The rest period chosen as loop boundary: the last one, unless a later
\* index i (searched from the end) has start <= loopPeriod and
\* end >= 0.9 * loopPeriod.
RECURSIVE BestRest(_, _, _)
BestRest(restPeriods, loopPeriod, i) ==
    IF i < 1 THEN Len(restPeriods)
    ELSE IF /\ restPeriods[i].start <= loopPeriod
            /\ restPeriods[i].end * 10 >= loopPeriod * 9
         THEN i
         ELSE BestRest(restPeriods, loopPeriod, i - 1)

\* restPeriods[bestRestIdx]?.end ?? loopPeriod
LoopEnd(restPeriods, loopPeriod) ==
    LET bestRestIdx == BestRest(restPeriods, loopPeriod, Len(restPeriods))
    IN IF bestRestIdx >= 1 THEN restPeriods[bestRestIdx].end ELSE loopPeriod

TrimSchedule(foci, restPeriods, loopPeriod) ==
    Bind(LoopEnd(restPeriods, loopPeriod), LAMBDA loopEnd :
        [foci |-> SelectSeq(foci, LAMBDA f : FocusEnd(f) <= loopEnd),
         totalDuration |-> loopEnd,
         restPeriods |-> SelectSeq(restPeriods, LAMBDA r : r.end <= loopEnd)])

\* generateSchedule(loopPeriod, params, seed) on the engine eng holding the
\* anchor influence given: the schedule it stores.
generateSchedule(eng, influence, loopPeriod, params, seed) ==
    Bind(ClampParams(params), LAMBDA c :
        Bind(Waves(eng, influence, c, loopPeriod,
                   [rng |-> RngNew(seed), currentTime |-> 0,
                    foci |-> <<>>, restPeriods |-> <<>>]),
             LAMBDA built : TrimSchedule(built.foci, built.restPeriods, loopPeriod)))

(***************************************************************************)
(* Displacements.  Math.sin, Math.exp and NoiseEngine.noise3D are pure     *)
(* functions of their arguments; the model replaces them by the integer    *)
(* functions Noise3D and ExpNeg below (values in hundredths resp.           *)
(* thousandths).  A displacement is in hundredths of a coordinate unit.    *)
(***************************************************************************)

\* NoiseEngine.noise3D(x, y, z), in hundredths: a value in -100..100.
Noise3D(x, y, z) == ((Abs(x) * 31 + Abs(y) * 17 + Abs(z) * 7) % 201) - 100

\* Math.exp(-x) for x >= 0 in thousandths: positive and decreasing.
ExpNeg(x) == 1 + (999000 \div (1000 + x))

\* pathDistance(pointT, focus.pathT) in thousandths, for the point pointIdx
\* (0-based) and the eng parameter k.
PathDistance(eng, pointIdx, k) ==
    LET total == eng.totalArcLength
        arc == eng.pointArcLengths[pointIdx + 1]
        den == IF total = 0 THEN RngModulus ELSE total * RngModulus
        num == IF total = 0 THEN k ELSE Abs(arc * RngModulus - k * total)
        d == IF eng.isClosedPath THEN Min(num, den - num) ELSE num
    IN (d * 1000) \div den

\* Math.sin(a) and Math.cos(a) for a in hundredths of a radian, in hundredths.
Sin(a) == ((Abs(a) * 37) % 201) - 100

Cos(a) == Sin(a + 157)

\* t * t * (3 - 2 * t) for t in thousandths, in thousandths.
Smoothstep(t) == (t * t * (3000 - 2 * t)) \div 1000000

\* getFocusEnvelope, in thousandths.  decayDuration is positive: the
\* durations are at least 0.1 s.
getFocusEnvelope(focus, time) ==
    LET elapsed == time - focus.startTime
        ramp == focus.rampDuration
        sustain == focus.sustainDuration
        decay == focus.decayDuration
    IN IF elapsed < 0 THEN 0
       ELSE IF elapsed > ramp + sustain + decay THEN 0
       ELSE IF elapsed < ramp THEN Smoothstep((elapsed * 1000) \div ramp)
       ELSE IF elapsed < ramp + sustain THEN 1000
       ELSE 1000 - Smoothstep(((elapsed - ramp - sustain) * 1000) \div decay)

\* The switch on focus.motionStyle: <<dx, dy>> in hundredths.  px, py, fx,
\* fy are the point's and the focus's position.
StyleDisplacement(focus, px, py, fx, fy, effectiveTime, time) ==
    LET toPointX == px - fx
        toPointY == py - fy
        len == Sqrt(toPointX * toPointX + toPointY * toPointY)
        toPointLen == IF len = 0 THEN 1 ELSE len
        dirX == (toPointX * 100) \div toPointLen
        dirY == (toPointY * 100) \div toPointLen
        perpX == -dirY
        perpY == dirX
        whipWave == (Sin(effectiveTime * 12) * ExpNeg(effectiveTime * 30)) \div 1000
        quiverPhase == (effectiveTime * focus.frequency * 628) \div 10000
        noiseX == Noise3D(px * 10, py * 10, time * 500)
        noiseY == Noise3D(px * 10 + 10000, py * 10, time * 500)
        strainCurve == Smoothstep(Min(effectiveTime * 20, 1000))
        nx == Noise3D(px * 5, py * 5, time * 800)
        ny == Noise3D(px * 5 + 5000, py * 5, time * 800)
        chaos == (Sin(effectiveTime * 20) * Sin(effectiveTime * 13)) \div 100
    IN CASE focus.motionStyle = "whip" ->
              <<(perpX * whipWave * focus.direction * 20) \div 10000,
                (perpY * whipWave * focus.direction * 20) \div 10000>>
         [] focus.motionStyle = "quiver" ->
              <<(Sin(quiverPhase) + noiseX \div 2) * 8,
                (Cos((quiverPhase * 13) \div 10) + noiseY \div 2) * 8>>
         [] focus.motionStyle = "strain" ->
              <<(dirX * strainCurve * focus.direction * 15) \div 100000,
                (dirY * strainCurve * focus.direction * 15) \div 100000>>
         [] OTHER ->
              <<(nx + (chaos * 3) \div 10) * 25, (ny + (chaos * 3) \div 10) * 25>>

\* getFocusDisplacement: <<dx, dy>> of one focus at one point.
getFocusDisplacement(eng, focus, pointIdx, time, params) ==
    LET envelope == getFocusEnvelope(focus, time)
        pathDist == PathDistance(eng, pointIdx, focus.pathT)
        propagationDelay == (pathDist * 100) \div focus.waveSpeed
        effectiveTime == time - focus.startTime - propagationDelay
        distanceFalloff == ExpNeg((pathDist * 100) \div params.propagationDecay)
        focusIdx == tToPointIndex(eng, focus.pathT)
        scale == (((((envelope * distanceFalloff) \div 1000) * focus.intensity) \div 100)
                     * params.baseIntensity) \div 100
    IN IF envelope < 1 THEN <<0, 0>>
       ELSE IF effectiveTime < 0 THEN <<0, 0>>
       ELSE Bind(<<StyleDisplacement(focus,
                                     eng.pointPositions[2 * pointIdx + 1],
                                     eng.pointPositions[2 * pointIdx + 2],
                                     eng.pointPositions[2 * focusIdx + 1],
                                     eng.pointPositions[2 * focusIdx + 2],
                                     effectiveTime, time),
                   scale>>,
                 LAMBDA d : <<(d[1][1] * d[2]) \div 1000, (d[1][2] * d[2]) \div 1000>>)

\* The displacements of the n foci from index j on, added to total one after
\* the other; the additions are evaluated in two halves.
RECURSIVE SumBlock(_, _, _, _, _, _, _, _)
SumBlock(eng, foci, j, n, pointIdx, time, params, total) ==
    IF n <= 0 THEN total
    ELSE IF n = 1
    THEN Bind(getFocusDisplacement(eng, foci[j], pointIdx, time, params),
              LAMBDA d : <<total[1] + d[1], total[2] + d[2]>>)
    ELSE Bind(SumBlock(eng, foci, j, n \div 2, pointIdx, time, params, total),
              LAMBDA half :
                  SumBlock(eng, foci, j + n \div 2, n - n \div 2, pointIdx, time,
                           params, half))

\* The sum of the displacements of the foci from index j on, added to total.
SumFoci(eng, foci, j, pointIdx, time, params, total) ==
    SumBlock(eng, foci, j, Len(foci) - j + 1, pointIdx, time, params, total)

\* The resting drift added to the displacement foc of point i.
WithDrift(eng, foc, i, time, params) ==
    LET px == eng.pointPositions[2 * i + 1]
        py == eng.pointPositions[2 * i + 2]
        driftX == (Noise3D(px * 2, py * 2, time * 30) * params.restingDrift * 5) \div 100
        driftY == (Noise3D(px * 2 + 10000, py * 2, time * 30) * params.restingDrift * 5)
                     \div 100
    IN IF params.restingDrift > 0
       THEN <<foc[1] + driftX, foc[2] + driftY>>
       ELSE foc

\* The per-point loop of calculateDisplacements for a given schedule, from
\* point i on: the displacements array.
RECURSIVE PointLoop(_, _, _, _, _, _, _)
PointLoop(eng, schedule, inRest, time, effectiveTime, params, i) ==
    IF i >= Len(eng.pointPositions) \div 2 THEN <<>>
    ELSE Bind(IF inRest THEN <<0, 0>>
              ELSE SumFoci(eng, schedule.foci, 1, i, effectiveTime, params, <<0, 0>>),
              LAMBDA foc : WithDrift(eng, foc, i, time, params))
         \o PointLoop(eng, schedule, inRest, time, effectiveTime, params, i + 1)

Displacements(eng, schedule, time, effectiveTime, params) ==
    Bind(\E j \in DOMAIN schedule.restPeriods :
             /\ effectiveTime >= schedule.restPeriods[j].start
             /\ effectiveTime <= schedule.restPeriods[j].end,
         LAMBDA inRest :
             PointLoop(eng, schedule, inRest, time, effectiveTime, params, 0))

\* null for a number (scheduleLoopPeriod) and for the schedule.
NullNumber == -1

NullSchedule == [foci |-> <<>>, totalDuration |-> NullNumber, restPeriods |-> <<>>]

\* new EldritchFocusEngine(parsedPath, anchorInfluence)
NewEngine(path, influence) ==
    [isClosedPath |-> IncludesClose(path),
     pointArcLengths |-> computeArcLengths(path),
     pointPositions |-> path.coords,
     totalArcLength |-> ArcTotal(path),
     anchorInfluence |-> influence,
     schedule |-> NullSchedule,
     scheduleSeed |-> 12345,
     scheduleLoopPeriod |-> NullNumber,
     lastTime |-> -1,
     cachedDisplacements |-> <<>>]

\* generateSchedule as a method: the seed given, or Math.random's.
SeedUsed(seed, random) == IF seed = NullNumber THEN random ELSE seed

\* A variant whose generator continues from the seed of the schedule before.
EngineGenerateBad(eng, loopPeriod, params, seed, random) ==
    [eng EXCEPT
        !.scheduleSeed = SeedUsed(seed, random),
        !.schedule = generateSchedule(eng, eng.anchorInfluence, loopPeriod, params,
                                      eng.scheduleSeed + SeedUsed(seed, random)),
        !.scheduleLoopPeriod = loopPeriod]

EngineGenerate(eng, loopPeriod, params, seed, random) ==
    [eng EXCEPT
        !.scheduleSeed = SeedUsed(seed, random),
        !.schedule = generateSchedule(eng, eng.anchorInfluence, loopPeriod, params,
                                      SeedUsed(seed, random)),
        !.scheduleLoopPeriod = loopPeriod]

\* The test that makes calculateDisplacements generate a schedule.
NeedsSchedule(eng, targetLoopPeriod) ==
    \/ eng.schedule = NullSchedule
    \/ eng.scheduleLoopPeriod = NullNumber
    \/ Abs(eng.scheduleLoopPeriod - targetLoopPeriod) > 10

\* calculateDisplacements(time, params, loopPeriod): the engine afterwards;
\* the array returned is its cachedDisplacements.
calculateDisplacements(eng, time, params, loopPeriod, random) ==
    LET targetLoopPeriod == IF loopPeriod > 0 THEN loopPeriod ELSE 1000
    IN Bind(IF NeedsSchedule(eng, targetLoopPeriod)
            THEN EngineGenerate(eng, targetLoopPeriod, params, NullNumber, random)
            ELSE eng,
            LAMBDA e1 :
                Bind(IF loopPeriod > 0
                     THEN JsMod(time, e1.schedule.totalDuration)
                     ELSE time,
                     LAMBDA effectiveTime :
                         [e1 EXCEPT
                             !.cachedDisplacements =
                                 Displacements(e1, e1.schedule, time, effectiveTime,
                                               params),
                             !.lastTime = effectiveTime]))

(***************************************************************************)
(* The engine's operations.  lastGen records, for the schedule the engine  *)
(* holds, the call that generated it: whether a seed was given, the seed,  *)
(* the loop period, the parameters, the anchor influence of that moment    *)
(* and whether the engine held a schedule before; and whether the latest   *)
(* call was calculateDisplacements, with its parameters.                   *)
(***************************************************************************)

GenRecord(eng, loopPeriod, params, seed, random) ==
    [explicit |-> seed # NullNumber,
     seed |-> SeedUsed(seed, random),
     loopPeriod |-> loopPeriod,
     params |-> params,
     influence |-> eng.anchorInfluence,
     earlier |-> eng.schedule # NullSchedule,
     calc |-> FALSE,
     calcParams |-> params]

\* regenerateSchedule(loopPeriod, params, seed) with a seed given.
RegenerateSchedule(loopPeriod, params, seed) ==
    /\ engine # NullEngine
    /\ engine' = EngineGenerate(engine, loopPeriod, params, seed, 0)
    /\ lastGen' = GenRecord(engine, loopPeriod, params, seed, 0)
    /\ UNCHANGED <<parsedPath, parserVars, animatorVars,
                   fieldVars, solverVars>>

\* calculateDisplacements(time, params, loopPeriod); random is the value
\* Math.floor(Math.random() * 1000000) would give if a schedule is generated.
CalculateDisplacements(time, params, loopPeriod, random) ==
    /\ engine # NullEngine
    /\ engine' = calculateDisplacements(engine, time, params, loopPeriod, random)
    /\ lastGen' = [(IF NeedsSchedule(engine,
                                     IF loopPeriod > 0 THEN loopPeriod ELSE 1000)
                    THEN GenRecord(engine,
                                   IF loopPeriod > 0 THEN loopPeriod ELSE 1000,
                                   params, NullNumber, random)
                    ELSE lastGen)
                      EXCEPT !.calc = TRUE, !.calcParams = params]
    /\ UNCHANGED <<parsedPath, parserVars, animatorVars,
                   fieldVars, solverVars>>

\* setAnchorInfluence(influence)
SetAnchorInfluence(influence) ==
    /\ engine # NullEngine
    /\ engine' = [engine EXCEPT !.anchorInfluence = influence]
    /\ UNCHANGED <<parsedPath, lastGen, parserVars, animatorVars,
                   fieldVars, solverVars>>

(***************************************************************************)
(* The inputs of the engine: a polyline of EnginePoints points, open or    *)
(* closed, influence fields over it, two parameter sets (the defaults, and *)
(* one that needs every clamp of generateSchedule), loop periods and seeds.*)
(***************************************************************************)
EnginePoints == 14

PolyCoords == [j \in 1..(2 * EnginePoints) |->
                  IF j % 2 = 1 THEN ((j - 1) \div 2) * 10 ELSE (((j \div 2) * 3) % 5)]

OpenPath == [commands |-> <<CMD_M>> \o [j \in 1..(EnginePoints - 1) |-> CMD_L],
             coords |-> PolyCoords]

ClosedPath == [commands |-> OpenPath.commands \o <<CMD_Z>>, coords |-> PolyCoords]

EnginePaths == {OpenPath, ClosedPath}

\* No anchor near: every point is free.
FreeField == [j \in 1..EnginePoints |-> InfluenceOne]

\* An anchor at the first point: pinned there, rising to free.
AnchoredField == [j \in 1..EnginePoints |->
                     CASE j = 1 -> 0 [] j = 2 -> 5 [] j = 3 -> 2000 [] OTHER -> InfluenceOne]

InfluenceFields == {FreeField, AnchoredField}

DefaultFocusParams ==
    [minFoci |-> 1, maxFoci |-> 2,
     focusDurationMin |-> 80, focusDurationMax |-> 200,
     restDurationMin |-> 30, restDurationMax |-> 100,
     motionWeights |-> <<100, 100, 100, 50>>,
     propagationSpeed |-> 200, propagationDecay |-> 15,
     baseIntensity |-> 100, restingDrift |-> 5]

ExtremeFocusParams ==
    [minFoci |-> 0, maxFoci |-> 0,
     focusDurationMin |-> 0, focusDurationMax |-> 300,
     restDurationMin |-> -10, restDurationMax |-> 100,
     motionWeights |-> <<0, -100, 0, 0>>,
     propagationSpeed |-> 50, propagationDecay |-> 5,
     baseIntensity |-> 300, restingDrift |-> 0]

\* Durations that are negative, with each maximum below its minimum.
InvertedFocusParams ==
    [minFoci |-> 1, maxFoci |-> 0,
     focusDurationMin |-> -20, focusDurationMax |-> -50,
     restDurationMin |-> 0, restDurationMax |-> -30,
     motionWeights |-> <<0, 0, 40, 0>>,
     propagationSpeed |-> 100, propagationDecay |-> 10,
     baseIntensity |-> 100, restingDrift |-> 0]

FocusParamSets == {DefaultFocusParams, ExtremeFocusParams}

ScheduleLoopPeriods == {300, 1000}

\* The loop periods and parameters regenerateSchedule is called with.
ScheduleInputs ==
    (ScheduleLoopPeriods \X FocusParamSets) \cup {<<300, InvertedFocusParams>>}

CalculateLoopPeriods == {0, 300}

ExplicitSeeds == {42, 213}

RandomSeeds == {42, 99}

SampleTimes == {130}

InitSchedule ==
    /\ parsedPath \in EnginePaths
    /\ \E influence \in InfluenceFields : engine = NewEngine(parsedPath, influence)
    /\ lastGen = NoGen
    /\ tokens = <<>>
    /\ parser = ParserInit
    /\ emitted = NoGroup
    /\ NoAnimator
    /\ NoField
    /\ NoSolver

NextSchedule ==
    \/ \E input \in ScheduleInputs, seed \in ExplicitSeeds :
            RegenerateSchedule(input[1], input[2], seed)
    \/ \E time \in SampleTimes, params \in FocusParamSets,
          loopPeriod \in CalculateLoopPeriods, random \in RandomSeeds :
            CalculateDisplacements(time, params, loopPeriod, random)
    \/ \E influence \in InfluenceFields : SetAnchorInfluence(influence)

SpecSchedule == InitSchedule /\ [][NextSchedule]_vars

(***************************************************************************)
(* FrameAnimator                                                           *)
(*                                                                         *)
(* The simulation time is in hundredths of a second, a timestamp in        *)
(* thirtieths of a second and the speed in units of 0.3, so that           *)
(* delta = dt * speed is a whole number of hundredths.  An output          *)
(* coordinate is kept in units of 1 / OutScale, in which                   *)
(* base + displacement * weight * intensity is exact; the rounding of the  *)
(* Float32Array store is left out.                                         *)
(***************************************************************************)

\* Maximum delta time (1 / 30 s), in timestamp units.
MAX_DELTA_TIME == 1

\* One coordinate unit, in output units: displacements are in hundredths
\* and weights in ten-thousandths.
OutScale == 1000000

\* The threshold 0.001 below which a point is pinned, in ten-thousandths.
PinnedWeight == 10

MotionTypes == {"psychedelic", "vegetal", "eldritch"}

\* DEFAULT_PARAMS, the fields the model follows.
DEFAULT_PARAMS ==
    [motionType |-> "psychedelic",
     speed |-> 1,
     intensity |-> 3,
     eldritchFocus |-> DefaultFocusParams,
     loopPeriod |-> 0]

\* NoiseEngine.psychedelicDisplacement: breathing, warped flow and shimmer,
\* each a noise of the position and the time.
psychedelicDisplacement(x, y, time) ==
    <<Noise3D(x * 3, y * 3, time * 20) \div 2
        + Noise3D(x * 10, y * 10, time * 100)
        + (Noise3D(x * 30, y * 30, time * 200) * 15) \div 100,
      (Noise3D(x * 3, y * 3, time * 20) * 3) \div 10
        + Noise3D(x * 10 + 5200, y * 10 + 1300, time * 100)
        + (Noise3D(x * 30 + 10000, y * 30, time * 230) * 15) \div 100>>

\* NoiseEngine.vegetalDisplacement: gusts along the wind direction and
\* flutter, each a noise of the position and the time.
vegetalDisplacement(x, y, time) ==
    <<(Noise3D(x * 2 + time * 50, y * 2 + time * 15, time * 15) * 7) \div 10
        + (Noise3D(x * 15, y * 15, time * 300) * 4) \div 10,
      (Noise3D(x + time * 25, y + time * 7, time * 8) * 7) \div 10
        + (Noise3D(x * 15 + 5000, y * 15, time * 300) * 4) \div 10>>

\* new FrameAnimator(canvas, parsedPath, viewBox)
NewAnimator(path) ==
    [baseCoords |-> path.coords,
     animatedCoords |-> [c \in DOMAIN path.coords |-> 0],
     influence |-> [i \in 1..(Len(path.coords) \div 2) |-> 0],
     time |-> 0,
     rafId |-> 0,
     running |-> FALSE,
     lastTimestamp |-> 0,
     params |-> DEFAULT_PARAMS]

\* A variant of the eldritch branch that leaves the weight out.
EldritchCoordBad(base, displacement, weight, intensity) ==
    base * OutScale + displacement * InfluenceOne * intensity

\* base + displacement * weight * intensity of the eldritch branch.
EldritchCoord(base, displacement, weight, intensity) ==
    base * OutScale + displacement * weight * intensity

\* One coordinate of the non-eldritch loop.
NoiseCoord(base, displacement, weight, intensity) ==
    IF weight < PinnedWeight THEN base * OutScale
    ELSE base * OutScale + displacement * weight * intensity

\* The eldritch branch of updatePoints: the engine after
\* calculateDisplacements and the buffer written.
UpdateEldritch(a, eng, random) ==
    Bind(calculateDisplacements(eng, a.time, a.params.eldritchFocus,
                                IF a.params.loopPeriod > 0 THEN a.params.loopPeriod
                                ELSE DEFAULT_LOOP_PERIOD,
                                random),
         LAMBDA e :
             [engine |-> e,
              coords |-> [c \in DOMAIN a.baseCoords |->
                             EldritchCoord(a.baseCoords[c], e.cachedDisplacements[c],
                                           a.influence[(c + 1) \div 2],
                                           a.params.intensity)]])

\* The displacement of the non-eldritch loop at the point i (1-based).
NoiseDisplacement(a, i) ==
    IF a.params.motionType = "vegetal"
    THEN vegetalDisplacement(a.baseCoords[2 * i - 1], a.baseCoords[2 * i], a.time)
    ELSE psychedelicDisplacement(a.baseCoords[2 * i - 1], a.baseCoords[2 * i], a.time)

\* updatePoints: the engine afterwards and the buffer written.
updatePoints(a, eng, random) ==
    IF a.params.motionType = "eldritch" /\ eng # NullEngine
    THEN UpdateEldritch(a, eng, random)
    ELSE [engine |-> eng,
          coords |-> [c \in DOMAIN a.baseCoords |->
                         NoiseCoord(a.baseCoords[c],
                                    NoiseDisplacement(a, (c + 1) \div 2)
                                        [IF c % 2 = 1 THEN 1 ELSE 2],
                                    a.influence[(c + 1) \div 2],
                                    a.params.intensity)]]

\* The history of schedule generation across updatePoints.
GenAfterUpdate(a, eng, random) ==
    LET target == IF a.params.loopPeriod > 0 THEN a.params.loopPeriod
                  ELSE DEFAULT_LOOP_PERIOD
    IN IF /\ a.params.motionType = "eldritch"
          /\ eng # NullEngine
          /\ NeedsSchedule(eng, target)
       THEN GenRecord(eng, target, a.params.eldritchFocus, NullNumber, random)
       ELSE lastGen

\* A variant that wraps only once the period is exceeded.
TickTimeBad(time, delta, loopPeriod) ==
    IF loopPeriod > 0 /\ time + delta > loopPeriod
    THEN time + delta - loopPeriod
    ELSE time + delta

\* animate: the new simulation time.
TickTime(time, delta, loopPeriod) ==
    IF loopPeriod > 0 THEN JsMod(time + delta, loopPeriod) ELSE time + delta

\* A variant that does not wrap the time given.
RenderTimeBad(time, loopPeriod) == time

\* renderAtTime: the simulation time for the time given.
RenderTime(time, loopPeriod) ==
    IF loopPeriod > 0 THEN JsMod(time, loopPeriod) ELSE time

\* requestAnimationFrame's handle: a positive number no pending callback has.
NewHandle(pending) ==
    CHOOSE id \in 1..(Cardinality(pending) + 1) : id \notin pending

\* setParams({ motionType })
SetMotionType(motionType) ==
    /\ animator # NullAnimator
    /\ animator' = [animator EXCEPT !.params.motionType = motionType]
    /\ lastOp' = "other"
    /\ zeroRender' = NoRender
    /\ UNCHANGED <<frames, now, stopped, engineVars, parserVars,
                   fieldVars, solverVars>>

\* setInfluence(influence)
SetInfluence(influence) ==
    /\ animator # NullAnimator
    /\ animator' = [animator EXCEPT !.influence = influence]
    /\ engine' = IF engine # NullEngine
                 THEN [engine EXCEPT !.anchorInfluence = influence]
                 ELSE NewEngine(parsedPath, influence)
    /\ lastOp' = "other"
    /\ zeroRender' = NoRender
    /\ UNCHANGED <<frames, now, stopped, parsedPath, lastGen, parserVars,
                   fieldVars, solverVars>>

\* setLoopPeriod(seconds)
SetLoopPeriod(seconds) ==
    /\ animator # NullAnimator
    /\ animator' = [animator EXCEPT !.params.loopPeriod = Max(0, seconds)]
    /\ lastOp' = "other"
    /\ zeroRender' = NoRender
    /\ UNCHANGED <<frames, now, stopped, engineVars, parserVars,
                   fieldVars, solverVars>>

\* A variant of start() without the test of running.
StartBad ==
    /\ animator # NullAnimator
    /\ animator' = [animator EXCEPT !.running = TRUE,
                                    !.lastTimestamp = now,
                                    !.rafId = NewHandle(frames)]
    /\ frames' = frames \cup {NewHandle(frames)}
    /\ lastOp' = "other"
    /\ stopped' = FALSE
    /\ zeroRender' = NoRender
    /\ UNCHANGED <<now, engineVars, parserVars, fieldVars, solverVars>>

\* start(); on a running animator it returns at once.
Start ==
    /\ animator # NullAnimator
    /\ ~animator.running
    /\ animator' = [animator EXCEPT !.running = TRUE,
                                    !.lastTimestamp = now,
                                    !.rafId = NewHandle(frames)]
    /\ frames' = frames \cup {NewHandle(frames)}
    /\ lastOp' = "other"
    /\ stopped' = FALSE
    /\ zeroRender' = NoRender
    /\ UNCHANGED <<now, engineVars, parserVars, fieldVars, solverVars>>

\* A variant of stop() that only forgets the handle.
StopBad ==
    /\ animator # NullAnimator
    /\ animator' = [animator EXCEPT !.rafId = 0]
    /\ lastOp' = "other"
    /\ stopped' = TRUE
    /\ zeroRender' = NoRender
    /\ UNCHANGED <<frames, now, engineVars, parserVars, fieldVars, solverVars>>

\* stop()
Stop ==
    /\ animator # NullAnimator
    /\ animator' = [animator EXCEPT !.running = FALSE, !.rafId = 0]
    /\ frames' = IF animator.rafId # 0 THEN frames \ {animator.rafId} ELSE frames
    /\ lastOp' = "other"
    /\ stopped' = TRUE
    /\ zeroRender' = NoRender
    /\ UNCHANGED <<now, engineVars, parserVars, fieldVars, solverVars>>

\* The body of animate once running is known to be true: gap is the time
\* since the clock was last read.
Tick(handle, gap, random) ==
    LET dt == Min((now + gap) - animator.lastTimestamp, MAX_DELTA_TIME)
        delta == dt * animator.params.speed
        ticked == [animator EXCEPT
                      !.lastTimestamp = now + gap,
                      !.time = TickTime(animator.time, delta, animator.params.loopPeriod)]
    IN /\ \E updated \in {updatePoints(ticked, engine, random)} :
              /\ animator' = [ticked EXCEPT
                                 !.animatedCoords = updated.coords,
                                 !.rafId = NewHandle(frames \ {handle})]
              /\ engine' = updated.engine
       /\ lastGen' = GenAfterUpdate(ticked, engine, random)
       /\ frames' = (frames \ {handle}) \cup {NewHandle(frames \ {handle})}
       /\ lastOp' = "tick"

\* The browser runs a pending animation-frame callback, gap after the clock
\* was last read: animate(timestamp).
Frame(handle, gap, random) ==
    /\ handle \in frames
    /\ now' = now + gap
    /\ IF animator.running
       THEN Tick(handle, gap, random)
       ELSE /\ frames' = frames \ {handle}
            /\ lastOp' = "frame"
            /\ UNCHANGED <<animator, engine, lastGen>>
    /\ zeroRender' = NoRender
    /\ UNCHANGED <<stopped, parsedPath, parserVars, fieldVars, solverVars>>

\* reset()
Reset ==
    /\ animator # NullAnimator
    /\ animator' = [animator EXCEPT !.time = 0]
    /\ lastOp' = "other"
    /\ zeroRender' = NoRender
    /\ UNCHANGED <<frames, now, stopped, engineVars, parserVars,
                   fieldVars, solverVars>>

\* The history of renderAtTime(0) followed by renderAtTime calls.
RenderHistory(time, loopPeriod, coords) ==
    IF time = 0 THEN [rendered |-> TRUE, coords |-> coords, atPeriod |-> FALSE]
    ELSE IF zeroRender.rendered /\ ~zeroRender.atPeriod /\ loopPeriod > 0
            /\ time = loopPeriod
    THEN [zeroRender EXCEPT !.atPeriod = TRUE]
    ELSE NoRender

\* renderAtTime(time): what it does to the animator and its engine.
Render(time, random) ==
    /\ animator # NullAnimator
    /\ LET at == [animator EXCEPT
                     !.time = RenderTime(time, animator.params.loopPeriod)]
       IN /\ \E updated \in {updatePoints(at, engine, random)} :
                 /\ animator' = [at EXCEPT !.animatedCoords = updated.coords]
                 /\ engine' = updated.engine
                 /\ zeroRender' = RenderHistory(time, animator.params.loopPeriod,
                                                updated.coords)
          /\ lastGen' = GenAfterUpdate(at, engine, random)
    /\ lastOp' = "render"
    /\ UNCHANGED <<frames, now, stopped, parsedPath, parserVars, solverVars>>

\* renderAtTime(time)
RenderAtTime(time, random) ==
    /\ Render(time, random)
    /\ UNCHANGED fieldVars

(***************************************************************************)
(* The inputs of the animator: a closed path of four points, an influence  *)
(* field with a pinned point, a nearly pinned one, a half free and a free  *)
(* one, loop periods, times to render at and gaps between frames, up to    *)
(* the clock value MaxNow.                                                 *)
(***************************************************************************)
MaxNow == 2

AnimatorPath ==
    [commands |-> <<CMD_M, CMD_L, CMD_L, CMD_L, CMD_Z>>,
     coords |-> <<0, 0, 10, 0, 10, 10, 0, 10>>]

PinnedField == <<0, 5, 3000, InfluenceOne>>

AnimatorFields == {PinnedField}

LoopPeriodsSet == {-100, 60}

RenderTimes == {0, 59, 60}

FrameGaps == {0, 2}

InitAnimator ==
    /\ parsedPath = AnimatorPath
    /\ animator = NewAnimator(AnimatorPath)
    /\ engine = NullEngine
    /\ lastGen = NoGen
    /\ frames = {}
    /\ now = 0
    /\ lastOp = "other"
    /\ stopped = FALSE
    /\ zeroRender = NoRender
    /\ tokens = <<>>
    /\ parser = ParserInit
    /\ emitted = NoGroup
    /\ NoField
    /\ NoSolver

NextAnimator ==
    \/ \E motionType \in MotionTypes : SetMotionType(motionType)
    \/ \E influence \in AnimatorFields : SetInfluence(influence)
    \/ \E seconds \in LoopPeriodsSet : SetLoopPeriod(seconds)
    \/ Start
    \/ Stop
    \/ \E handle \in frames, gap \in FrameGaps, random \in RandomSeeds :
          now + gap <= MaxNow /\ Frame(handle, gap, random)
    \/ Reset
    \/ \E time \in RenderTimes, random \in RandomSeeds : RenderAtTime(time, random)

SpecAnimator == InitAnimator /\ [][NextAnimator]_vars

(***************************************************************************)
(* computeInfluenceMap                                                     *)
(*                                                                         *)
(* Coordinates and distances are in thirds, like the parser's.  The ratio  *)
(* t = minDist / falloffRadius is kept in steps of 1 / TGrid, on which the *)
(* quintic is computed exactly; an influence is in ten-thousandths.        *)
(***************************************************************************)

\* let minDist = Infinity, and the quotients that are infinite.
Infinity == 999999

TGrid == 50

\* quinticSmoothstep(t), t in steps of 1 / TGrid.  A NaN fails both
\* comparisons and the polynomial of a NaN is a NaN.
quinticSmoothstepBad(t) ==
    IF t = NaN THEN NaN
    ELSE IF t <= 0 THEN 0
    ELSE IF t >= TGrid THEN InfluenceOne
    ELSE InfluenceOne
           - (t * t * t * (t * (t * 6 - 15 * TGrid) + 10 * TGrid * TGrid))
               \div ((TGrid ^ 5) \div InfluenceOne)

quinticSmoothstep(t) ==
    IF t = NaN THEN NaN
    ELSE IF t <= 0 THEN 0
    ELSE IF t >= TGrid THEN InfluenceOne
    ELSE (t * t * t * (t * (t * 6 - 15 * TGrid) + 10 * TGrid * TGrid))
           \div ((TGrid ^ 5) \div InfluenceOne)

\* minDist / falloffRadius in IEEE arithmetic: 0 / 0 is NaN, d / 0 is
\* Infinity, Infinity / r has the sign of r.
DistanceRatio(minDist, falloffRadius) ==
    IF falloffRadius = 0
    THEN (IF minDist = 0 THEN NaN ELSE Infinity)
    ELSE IF minDist = Infinity
    THEN (IF falloffRadius > 0 THEN Infinity ELSE -Infinity)
    ELSE (minDist * TGrid) \div falloffRadius

Anchor(type, groupId, position, x, y) ==
    [type |-> type, groupId |-> groupId, position |-> position,
     x |-> x * CoordScale, y |-> y * CoordScale]

\* anchors.map(a => ({ ...a, x: a.x - tx, y: a.y - ty }))
TransformAnchors(anchors, tx, ty) ==
    [k \in DOMAIN anchors |->
        [anchors[k] EXCEPT !.x = @ - tx, !.y = @ - ty]]

\* The index of the last line anchor of a group at a position, 0 if none.
LineEnd(anchors, groupId, position) ==
    LET ks == {k \in DOMAIN anchors :
                 /\ anchors[k].type = "line"
                 /\ anchors[k].groupId = groupId
                 /\ anchors[k].position = position}
    IN IF ks = {} THEN 0 ELSE CHOOSE k \in ks : \A j \in ks : j <= k

\* groupLineAnchors: per group id of a line anchor, its start and end.
groupLineAnchors(anchors) ==
    LET ids == {anchors[k].groupId :
                  k \in {j \in DOMAIN anchors : anchors[j].type = "line"}}
    IN [g \in ids |-> [start |-> LineEnd(anchors, g, "start"),
                       end |-> LineEnd(anchors, g, "end")]]

PointDistance(px, py, ax, ay) ==
    Sqrt((px - ax) * (px - ax) + (py - ay) * (py - ay))

\* distanceToLineSegment: the projection parameter in thousandths.
distanceToLineSegment(px, py, x1, y1, x2, y2) ==
    LET dx == x2 - x1
        dy == y2 - y1
        lengthSq == dx * dx + dy * dy
    IN IF lengthSq = 0
       THEN PointDistance(px, py, x1, y1)
       ELSE LET t == Max(0, Min(1000,
                       (((px - x1) * dx + (py - y1) * dy) * 1000)
                           \div lengthSq))
                projX == x1 + (t * dx) \div 1000
                projY == y1 + (t * dy) \div 1000
            IN PointDistance(px, py, projX, projY)

\* The smallest of the distances to the point anchors and to the line
\* anchors with both ends, Infinity when there is none.
MinDistance(px, py, anchors) ==
    LET lineGroups == groupLineAnchors(anchors)
        pointDists ==
            {PointDistance(px, py, anchors[k].x, anchors[k].y) :
               k \in {j \in DOMAIN anchors :
                        anchors[j].type \in {"rect", "single"}}}
        lineDists ==
            {distanceToLineSegment(px, py,
                 anchors[lineGroups[g].start].x, anchors[lineGroups[g].start].y,
                 anchors[lineGroups[g].end].x, anchors[lineGroups[g].end].y) :
               g \in {h \in DOMAIN lineGroups :
                        lineGroups[h].start # 0 /\ lineGroups[h].end # 0}}
        dists == pointDists \cup lineDists
    IN IF dists = {} THEN Infinity
       ELSE CHOOSE m \in dists : \A d \in dists : m <= d

\* computeInfluenceMap(coords, anchors, falloffRadius, transformOffset):
\* the transformed anchors, the distances and the influence of each point.
computeInfluenceMap(coords, anchors, falloffRadius, tx, ty) ==
    LET numPoints == Len(coords) \div 2
        transformedAnchors == TransformAnchors(anchors, tx, ty)
        minDist == [i \in 1..numPoints |->
                      MinDistance(coords[2 * i - 1], coords[2 * i],
                                  transformedAnchors)]
    IN [transformedAnchors |-> transformedAnchors,
        minDist |-> minDist,
        influence |-> [i \in 1..numPoints |->
                         quinticSmoothstep(
                             DistanceRatio(minDist[i], falloffRadius))]]

\* AnimatedFrame: the path is parsed with the transform offset, then the
\* influence map is computed from its coords with the same offset.
ComputeInfluenceMap(anchors, falloffRadius) ==
    /\ parser.pc = "returned"
    /\ LET result == computeInfluenceMap(parser.coordsList, anchors,
                                         falloffRadius, OffsetX, OffsetY)
       IN influenceMap' =
            [computed |-> TRUE, coords |-> parser.coordsList,
             anchors |-> anchors, falloffRadius |-> falloffRadius,
             transformedAnchors |-> result.transformedAnchors,
             minDist |-> result.minDist, influence |-> result.influence]
    /\ UNCHANGED <<recomputes, exportRun, parserVars, engineVars, animatorVars,
                   solverVars>>

(***************************************************************************)
(* The inputs of computeInfluenceMap: three paths of moves and lines, and  *)
(* anchors of the three types, one of them on the first path point.        *)
(***************************************************************************)
Tokens(letter, numbers) ==
    <<CmdToken(letter)>> \o [k \in DOMAIN numbers |-> NumToken(numbers[k])]

InfluencePaths ==
    {Tokens("m", <<0, 0>>) \o Tokens("l", <<10, 0, 10, 0, 20, 0>>),
     Tokens("M", <<0, 0>>) \o Tokens("l", <<3, 4, 3, 4>>),
     Tokens("M", <<0, 0>>) \o Tokens("L", <<10, 0, 30, 0>>)}

AnchorSets ==
    {<<>>,
     <<Anchor("single", 200, "", 10, 14)>>,
     <<Anchor("single", 200, "", 5, 7)>>,
     <<Anchor("line", 100, "start", 10, 14),
       Anchor("line", 100, "end", 30, 14)>>,
     <<Anchor("line", 100, "start", 10, 14),
       Anchor("line", 100, "end", 10, 14),
       Anchor("single", 200, "", 50, 14)>>,
     <<Anchor("rect", 1, "", 10, 14), Anchor("rect", 1, "", 30, 14),
       Anchor("rect", 1, "", 10, 34), Anchor("rect", 1, "", 30, 34)>>}

FalloffRadii == {r * CoordScale : r \in {-10, 0, 10, 25, 60}}

InitInfluence ==
    /\ tokens \in InfluencePaths
    /\ parser = ParserInit
    /\ emitted = NoGroup
    /\ NoField
    /\ parsedPath = NoPath
    /\ engine = NullEngine
    /\ lastGen = NoGen
    /\ NoAnimator
    /\ NoSolver

NextInfluence ==
    \/ ParseStep
    \/ ParseReturn
    \/ \E anchors \in AnchorSets, falloffRadius \in FalloffRadii :
         ComputeInfluenceMap(anchors, falloffRadius)

SpecInfluence == InitInfluence /\ [][NextInfluence]_vars

(***************************************************************************)
(* AnimatedFrame: the effect that recomputes the influence when the        *)
(* falloff radius or the anchors change.  Every run of the effect starts   *)
(* an asynchronous recomputation that keeps the radius and the anchors of  *)
(* its render; it ends, after the awaits of fetch and text, by computing   *)
(* the map from the path fetched and calling setInfluence.  The document   *)
(* fetched is the same every time.                                         *)
(***************************************************************************)

\* The coords parsePath returns for the document fetched, in thirds.
FetchedCoords ==
    [c \in DOMAIN AnimatorPath.coords |-> AnimatorPath.coords[c] * CoordScale]

\* The influence a recomputation started with the radius and anchors given
\* passes to setInfluence.
RecomputedInfluence(anchors, falloffRadius) ==
    computeInfluenceMap(FetchedCoords, anchors, falloffRadius,
                        OffsetX, OffsetY).influence

\* The effect's run for the props given: the recomputation is in flight.
StartRecompute(falloffRadius, anchorsData) ==
    /\ animator # NullAnimator
    /\ recomputes' =
         [recomputes EXCEPT
             !.falloffRadius = falloffRadius,
             !.anchorsData = anchorsData,
             !.started = @ + 1,
             !.pending = @ \cup {[id |-> recomputes.started + 1,
                                  falloffRadius |-> falloffRadius,
                                  anchors |-> anchorsData]}]
    /\ UNCHANGED <<influenceMap, exportRun, parserVars, engineVars,
                   animatorVars, solverVars>>

MaxRecomputes == 3

\* A render with another params.falloffRadius.
ChangeFalloffRadius(falloffRadius) ==
    /\ recomputes.started < MaxRecomputes
    /\ falloffRadius # recomputes.falloffRadius
    /\ StartRecompute(falloffRadius, recomputes.anchorsData)

\* A render with another anchorsData.
ChangeAnchorsData(anchorsData) ==
    /\ recomputes.started < MaxRecomputes
    /\ anchorsData # recomputes.anchorsData
    /\ StartRecompute(recomputes.falloffRadius, anchorsData)

\* The recomputation request gets its response and runs to its end:
\* computeInfluenceMap, then animator.setInfluence(influence).
RecomputeDone(request) ==
    /\ request \in recomputes.pending
    /\ \E influence \in {RecomputedInfluence(request.anchors,
                                              request.falloffRadius)} :
          /\ animator' = [animator EXCEPT !.influence = influence]
          /\ engine' = IF engine # NullEngine
                       THEN [engine EXCEPT !.anchorInfluence = influence]
                       ELSE NewEngine(parsedPath, influence)
    /\ recomputes' = [recomputes EXCEPT !.pending = @ \ {request}]
    /\ lastOp' = "other"
    /\ zeroRender' = NoRender
    /\ UNCHANGED <<influenceMap, exportRun, frames, now, stopped, parsedPath,
                   lastGen, parserVars, solverVars>>

\* The props of the model: falloff radii of the slider's range and two
\* anchor sets near the path.
FrameRadii == {r * CoordScale : r \in {5, 20, 60}}

FrameAnchorSets ==
    {<<Anchor("single", 200, "", 5, 7)>>,
     <<Anchor("single", 200, "", 15, 17)>>}

InitRecompute ==
    /\ parsedPath = AnimatorPath
    /\ animator = NewAnimator(AnimatorPath)
    /\ engine = NullEngine
    /\ lastGen = NoGen
    /\ frames = {}
    /\ now = 0
    /\ lastOp = "other"
    /\ stopped = FALSE
    /\ zeroRender = NoRender
    /\ tokens = <<>>
    /\ parser = ParserInit
    /\ emitted = NoGroup
    /\ influenceMap = NoMap
    /\ \E falloffRadius \in FrameRadii, anchorsData \in FrameAnchorSets :
          recomputes = [falloffRadius |-> falloffRadius,
                        anchorsData |-> anchorsData,
                        started |-> 0, pending |-> {}]
    /\ exportRun = NoExport
    /\ NoSolver

NextRecompute ==
    \/ \E falloffRadius \in FrameRadii : ChangeFalloffRadius(falloffRadius)
    \/ \E anchorsData \in FrameAnchorSets : ChangeAnchorsData(anchorsData)
    \/ \E request \in recomputes.pending : RecomputeDone(request)

SpecRecompute == InitRecompute /\ [][NextRecompute]_vars

(***************************************************************************)
(* The export dialog: handleExport.  It runs in steps separated by its     *)
(* awaits: the start up to the try block, one step per captured frame,     *)
(* the encoding, and the end through the finally block, which an error     *)
(* thrown in the try block reaches as well.  Durations and loop periods    *)
(* are in hundredths of a second, the speed in hundredths.                 *)
(***************************************************************************)

\* speed > 0 ? options.loopDuration * speed : 0
LoopSpan(loopDuration, speed) ==
    IF speed > 0 THEN (loopDuration * speed) \div 100 ELSE 0

\* Math.ceil(options.loopDuration * options.fps)
TotalFrames(loopDuration, fps) == (loopDuration * fps + 99) \div 100

\* loopSpan > 0 ? (i / totalFrames) * loopSpan : 0
CaptureTime(run) ==
    IF run.loopSpan > 0 THEN (run.i * run.loopSpan) \div run.totalFrames ELSE 0

\* A variant of the finally block that leaves the loop period alone.
ExportFinallyBad(a, run) == a

\* The finally block: setLoopPeriod(previousLoopPeriod).
ExportFinally(a, run) ==
    [a EXCEPT !.params.loopPeriod = Max(0, run.previousLoopPeriod)]

\* handleExport up to the try block: the loop period is read, then set.
ExportStart(loopDuration, speed, fps) ==
    /\ animator # NullAnimator
    /\ exportRun.phase = "idle"
    /\ animator' = [animator EXCEPT
                       !.params.loopPeriod = Max(0, LoopSpan(loopDuration, speed))]
    /\ exportRun' = [phase |-> "capturing",
                     ended |-> "none",
                     previousLoopPeriod |-> animator.params.loopPeriod,
                     loopSpan |-> LoopSpan(loopDuration, speed),
                     totalFrames |-> TotalFrames(loopDuration, fps),
                     i |-> 0]
    /\ lastOp' = "other"
    /\ zeroRender' = NoRender
    /\ UNCHANGED <<influenceMap, recomputes, frames, now, stopped, engineVars,
                   parserVars, solverVars>>

\* One iteration of the capture loop: captureFrame(time), up to the await.
ExportCapture(random) ==
    /\ exportRun.phase = "capturing"
    /\ exportRun.i < exportRun.totalFrames
    /\ Render(CaptureTime(exportRun), random)
    /\ exportRun' = [exportRun EXCEPT !.i = @ + 1]
    /\ UNCHANGED <<influenceMap, recomputes>>

\* The loop is over: encodeGif is awaited.
ExportEncode ==
    /\ exportRun.phase = "capturing"
    /\ exportRun.i >= exportRun.totalFrames
    /\ exportRun' = [exportRun EXCEPT !.phase = "encoding"]
    /\ UNCHANGED <<influenceMap, recomputes, parserVars, engineVars,
                   animatorVars, solverVars>>

\* The end of handleExport through the finally block, how is "success"
\* (the blob is downloaded) or "error" (something thrown in the try block).
ExportEnd(how) ==
    /\ animator' = ExportFinally(animator, exportRun)
    /\ exportRun' = [exportRun EXCEPT !.phase = "idle", !.ended = how]
    /\ lastOp' = "exportEnd"
    /\ zeroRender' = NoRender
    /\ UNCHANGED <<influenceMap, recomputes, frames, now, stopped, engineVars,
                   parserVars, solverVars>>

\* encodeGif resolved.
ExportFinish ==
    /\ exportRun.phase = "encoding"
    /\ ExportEnd("success")

\* An error thrown while capturing or encoding.
ExportThrow ==
    /\ exportRun.phase \in {"capturing", "encoding"}
    /\ ExportEnd("error")

\* The export options of the model; the panel's speed, 0 included.
ExportDurations == {100, 150}

ExportSpeeds == {0, 100, 200}

ExportFps == {2}

ExportLoopPeriods == {-100, 60, 150}

ExportSeeds == {42}

InitExport ==
    /\ parsedPath = AnimatorPath
    /\ animator = NewAnimator(AnimatorPath)
    /\ engine = NullEngine
    /\ lastGen = NoGen
    /\ frames = {}
    /\ now = 0
    /\ lastOp = "other"
    /\ stopped = FALSE
    /\ zeroRender = NoRender
    /\ tokens = <<>>
    /\ parser = ParserInit
    /\ emitted = NoGroup
    /\ NoField
    /\ NoSolver

NextExport ==
    \/ \E seconds \in ExportLoopPeriods : SetLoopPeriod(seconds)
    \/ \E loopDuration \in ExportDurations, speed \in ExportSpeeds,
          fps \in ExportFps : ExportStart(loopDuration, speed, fps)
    \/ \E random \in ExportSeeds : ExportCapture(random)
    \/ ExportEncode
    \/ ExportFinish
    \/ ExportThrow

SpecExport == InitExport /\ [][NextExport]_vars

(***************************************************************************)
(* PBDSolver                                                               *)
(*                                                                         *)
(* Positions, lengths and displacements are in hundredths, stiffnesses,    *)
(* damping and stretch ratios in hundredths, directions in thousandths,    *)
(* inverse masses and anchor stiffnesses in ten-thousandths like the       *)
(* influence values.  Particle and command indices start at 1; the         *)
(* source's index -1 is 0.  A length that is 0 is replaced in the source   *)
(* by 0.0001 before a division whose numerator is then 0: the quotient is  *)
(* 0.                                                                      *)
(***************************************************************************)
SolverScale == 100

DEFAULT_ITERATIONS == 4

DISTANCE_STIFFNESS == 80

CONTINUITY_STIFFNESS == 90

ANCHOR_STIFFNESS == 100

MAX_STRETCH_RATIO == 150

VELOCITY_DAMPING == 98

DEFAULT_PBD_CONFIG ==
    [iterations |-> DEFAULT_ITERATIONS,
     distanceStiffness |-> DISTANCE_STIFFNESS,
     continuityStiffness |-> CONTINUITY_STIFFNESS,
     velocityDamping |-> VELOCITY_DAMPING,
     maxStretchRatio |-> MAX_STRETCH_RATIO]

\* Math.sqrt(dx * dx + dy * dy), rounded down.
RECURSIVE SqrtBetween(_, _, _)
SqrtBetween(n, lo, hi) ==
    IF lo >= hi THEN lo
    ELSE LET mid == (lo + hi + 1) \div 2
         IN IF mid * mid <= n THEN SqrtBetween(n, mid, hi)
            ELSE SqrtBetween(n, lo, mid - 1)

Length(dx, dy) == SqrtBetween(dx * dx + dy * dy, 0, Abs(dx) + Abs(dy))

\* a / (len || 0.0001) where a is 0 whenever len is.
OverLength(a, len) == IF len = 0 THEN 0 ELSE a \div len

\* initializeParticles: one particle per point, invMass = influence.
initializeParticles(path, anchorInfluence) ==
    [i \in 1..(Len(path.coords) \div 2) |->
        [x |-> path.coords[2 * i - 1], y |-> path.coords[2 * i],
         prevX |-> path.coords[2 * i - 1], prevY |-> path.coords[2 * i],
         baseX |-> path.coords[2 * i - 1], baseY |-> path.coords[2 * i],
         invMass |-> anchorInfluence[i]]]

\* addDistanceConstraint: the rest length is the present distance.
addDistanceConstraint(particles, config, p1, p2) ==
    [p1 |-> p1, p2 |-> p2,
     restLength |-> Length(particles[p2].x - particles[p1].x,
                           particles[p2].y - particles[p1].y),
     stiffness |-> config.distanceStiffness]

\* buildDistanceConstraints: every adjacent pair of points of a subpath,
\* control points included.
RECURSIVE DistanceWalk(_, _, _, _, _, _)
DistanceWalk(path, particles, config, i, pointIdx, prevPointIdx) ==
    IF i > Len(path.commands) THEN <<>>
    ELSE LET cmd == path.commands[i]
         IN CASE cmd = CMD_M ->
                   DistanceWalk(path, particles, config, i + 1,
                                pointIdx + 1, pointIdx)
              [] cmd = CMD_L ->
                   (IF prevPointIdx >= 1
                    THEN <<addDistanceConstraint(particles, config,
                                                 prevPointIdx, pointIdx)>>
                    ELSE <<>>)
                   \o DistanceWalk(path, particles, config, i + 1,
                                   pointIdx + 1, pointIdx)
              [] cmd = CMD_C ->
                   (IF prevPointIdx >= 1
                    THEN <<addDistanceConstraint(particles, config,
                                                 prevPointIdx, pointIdx)>>
                    ELSE <<>>)
                   \o <<addDistanceConstraint(particles, config,
                                              pointIdx, pointIdx + 1),
                        addDistanceConstraint(particles, config,
                                              pointIdx + 1, pointIdx + 2)>>
                   \o DistanceWalk(path, particles, config, i + 1,
                                   pointIdx + 3, pointIdx + 2)
              [] OTHER ->
                   DistanceWalk(path, particles, config, i + 1,
                                pointIdx, prevPointIdx)

buildDistanceConstraints(path, particles, config) ==
    DistanceWalk(path, particles, config, 1, 1, 0)

\* A rest tangent: the vector over (its length || 1).
RestTangent(tx, ty) ==
    LET len == Length(tx, ty)
    IN IF len = 0
       THEN [x |-> 0, y |-> 0, len |-> SolverScale]
       ELSE [x |-> (tx * 1000) \div len, y |-> (ty * 1000) \div len,
             len |-> len]

\* buildBezierConstraints: one constraint per cubic that has a point
\* before it; nextCp1 when the next command is a cubic too.
RECURSIVE BezierWalk(_, _, _, _, _)
BezierWalk(path, particles, i, pointIdx, prevEndIdx) ==
    IF i > Len(path.commands) THEN <<>>
    ELSE LET cmd == path.commands[i]
         IN CASE cmd \in {CMD_M, CMD_L} ->
                   BezierWalk(path, particles, i + 1, pointIdx + 1, pointIdx)
              [] cmd = CMD_C ->
                   LET cp1Idx == pointIdx
                       cp2Idx == pointIdx + 1
                       endIdx == pointIdx + 2
                       nextCp1Idx ==
                           IF i + 1 <= Len(path.commands)
                                /\ path.commands[i + 1] = CMD_C
                           THEN endIdx + 1 ELSE 0
                       tangentIn ==
                           RestTangent(
                               particles[cp1Idx].x - particles[prevEndIdx].x,
                               particles[cp1Idx].y - particles[prevEndIdx].y)
                       tangentOut ==
                           RestTangent(
                               particles[endIdx].x - particles[cp2Idx].x,
                               particles[endIdx].y - particles[cp2Idx].y)
                   IN (IF prevEndIdx >= 1
                       THEN <<[prevEnd |-> prevEndIdx, cp1 |-> cp1Idx,
                               cp2 |-> cp2Idx, end |-> endIdx,
                               nextCp1 |-> nextCp1Idx,
                               restTangentIn |->
                                   [x |-> tangentIn.x, y |-> tangentIn.y],
                               restTangentOut |->
                                   [x |-> tangentOut.x, y |-> tangentOut.y],
                               restLengthIn |-> tangentIn.len,
                               restLengthOut |-> tangentOut.len]>>
                       ELSE <<>>)
                      \o BezierWalk(path, particles, i + 1,
                                    pointIdx + 3, endIdx)
              [] OTHER ->
                   BezierWalk(path, particles, i + 1, pointIdx, prevEndIdx)

buildBezierConstraints(path, particles) ==
    BezierWalk(path, particles, 1, 1, 0)

\* buildAnchorConstraints: a pull to the base position for every point with
\* influence below 0.95, of stiffness (1 - influence) * ANCHOR_STIFFNESS.
RECURSIVE AnchorWalk(_, _, _)
AnchorWalk(particles, anchorInfluence, i) ==
    IF i > Len(particles) THEN <<>>
    ELSE (IF anchorInfluence[i] < (95 * InfluenceOne) \div 100
          THEN <<[particle |-> i,
                  targetX |-> particles[i].baseX,
                  targetY |-> particles[i].baseY,
                  stiffness |-> ((InfluenceOne - anchorInfluence[i])
                                    * ANCHOR_STIFFNESS) \div 100]>>
          ELSE <<>>)
         \o AnchorWalk(particles, anchorInfluence, i + 1)

buildAnchorConstraints(particles, anchorInfluence) ==
    AnchorWalk(particles, anchorInfluence, 1)

\* new PBDSolver(parsedPath, anchorInfluence): the default configuration.
NewSolver(path, anchorInfluence) ==
    LET particles == initializeParticles(path, anchorInfluence)
    IN [particles |-> particles,
        distanceConstraints |->
            buildDistanceConstraints(path, particles, DEFAULT_PBD_CONFIG),
        bezierConstraints |-> buildBezierConstraints(path, particles),
        anchorConstraints |->
            buildAnchorConstraints(particles, anchorInfluence),
        config |-> DEFAULT_PBD_CONFIG,
        outputCoords |-> [c \in 1..Len(path.coords) |-> 0],
        stretchRatios |-> [i \in 1..Len(particles) |-> 100]]

\* applyDisplacements: prev = current, current = base + d * invMass.
applyDisplacements(s, displacements) ==
    [s EXCEPT !.particles =
        [i \in DOMAIN s.particles |->
            LET p == s.particles[i]
            IN [p EXCEPT
                  !.prevX = p.x, !.prevY = p.y,
                  !.x = p.baseX
                          + (displacements[2 * i - 1] * p.invMass)
                                \div InfluenceOne,
                  !.y = p.baseY
                          + (displacements[2 * i] * p.invMass)
                                \div InfluenceOne]]]

\* applyDamping: the implicit velocity of every unpinned particle is scaled.
applyDamping(particles, damping) ==
    [i \in DOMAIN particles |->
        LET p == particles[i]
        IN IF p.invMass = 0 THEN p
           ELSE [p EXCEPT
                   !.prevX = p.x - ((p.x - p.prevX) * damping) \div 100,
                   !.prevY = p.y - ((p.y - p.prevY) * damping) \div 100]]

\* solveAnchorConstraints: each anchored particle moves toward its target.
RECURSIVE solveAnchorConstraintsFrom(_, _, _)
solveAnchorConstraintsFrom(particles, constraints, k) ==
    IF k > Len(constraints) THEN particles
    ELSE LET c == constraints[k]
             p == particles[c.particle]
             moved == [p EXCEPT
                         !.x = p.x + ((c.targetX - p.x) * c.stiffness)
                                        \div InfluenceOne,
                         !.y = p.y + ((c.targetY - p.y) * c.stiffness)
                                        \div InfluenceOne]
         IN Bind([particles EXCEPT ![c.particle] = moved],
                 LAMBDA ps : solveAnchorConstraintsFrom(ps, constraints, k + 1))

solveAnchorConstraints(s, particles) ==
    solveAnchorConstraintsFrom(particles, s.anchorConstraints, 1)

\* A control point is turned about an origin toward a rest direction, its
\* distance kept: the correction of cp1 about prevEnd and of cp2 about end.
TangentCorrection(particles, origin, point, restX, restY, stiffness) ==
    LET o == particles[origin]
        p == particles[point]
        currentDx == p.x - o.x
        currentDy == p.y - o.y
    IN Bind(Length(currentDx, currentDy), LAMBDA currentLen :
        LET currentDirX == OverLength(currentDx * 1000, currentLen)
            currentDirY == OverLength(currentDy * 1000, currentLen)
            blendFactor == (stiffness * 30) \div 100
            targetDirX == currentDirX
                            + ((restX - currentDirX) * blendFactor) \div 100
            targetDirY == currentDirY
                            + ((restY - currentDirY) * blendFactor) \div 100
        IN Bind(Length(targetDirX, targetDirY), LAMBDA dirLen :
            LET targetDirLen == IF dirLen = 0 THEN 1000 ELSE dirLen
                normDirX == (targetDirX * 1000) \div targetDirLen
                normDirY == (targetDirY * 1000) \div targetDirLen
                targetX == o.x + (normDirX * currentLen) \div 1000
                targetY == o.y + (normDirY * currentLen) \div 1000
            IN IF p.invMass > 0
               THEN [particles EXCEPT ![point] =
                       [p EXCEPT
                          !.x = p.x + ((((targetX - p.x) * stiffness) \div 100)
                                          * p.invMass) \div InfluenceOne,
                          !.y = p.y + ((((targetY - p.y) * stiffness) \div 100)
                                          * p.invMass) \div InfluenceOne]]
               ELSE particles))

\* C1 continuity: the next cubic's cp1 is drawn onto the line cp2 -> end,
\* its distance from end kept.
CollinearCorrection(particles, c, stiffness) ==
    LET end == particles[c.end]
        cp2 == particles[c.cp2]
        nextCp1 == particles[c.nextCp1]
        inDx == end.x - cp2.x
        inDy == end.y - cp2.y
    IN Bind(Length(inDx, inDy), LAMBDA inLen :
        Bind(Length(nextCp1.x - end.x, nextCp1.y - end.y), LAMBDA outLen :
            LET inDirX == OverLength(inDx * 1000, inLen)
                inDirY == OverLength(inDy * 1000, inLen)
                targetX == end.x + (inDirX * outLen) \div 1000
                targetY == end.y + (inDirY * outLen) \div 1000
                c1Stiffness == (stiffness * 50) \div 100
            IN IF nextCp1.invMass > 0
               THEN [particles EXCEPT ![c.nextCp1] =
                       [nextCp1 EXCEPT
                          !.x = nextCp1.x
                                  + ((((targetX - nextCp1.x) * c1Stiffness)
                                         \div 100) * nextCp1.invMass)
                                      \div InfluenceOne,
                          !.y = nextCp1.y
                                  + ((((targetY - nextCp1.y) * c1Stiffness)
                                         \div 100) * nextCp1.invMass)
                                      \div InfluenceOne]]
               ELSE particles))

\* One bezier constraint: cp1 about prevEnd, cp2 about end, then nextCp1.
BezierStep(particles, c, stiffness) ==
    Bind(IF c.prevEnd >= 1
         THEN TangentCorrection(particles, c.prevEnd, c.cp1,
                                c.restTangentIn.x, c.restTangentIn.y,
                                stiffness)
         ELSE particles,
         LAMBDA ps1 :
    Bind(TangentCorrection(ps1, c.end, c.cp2,
                           -c.restTangentOut.x, -c.restTangentOut.y,
                           stiffness),
         LAMBDA ps2 :
         IF c.nextCp1 >= 1 THEN CollinearCorrection(ps2, c, stiffness)
         ELSE ps2))

RECURSIVE solveBezierConstraintsFrom(_, _, _, _)
solveBezierConstraintsFrom(particles, constraints, stiffness, k) ==
    IF k > Len(constraints) THEN particles
    ELSE Bind(BezierStep(particles, constraints[k], stiffness),
              LAMBDA ps : solveBezierConstraintsFrom(ps, constraints,
                                                     stiffness, k + 1))

solveBezierConstraints(s, particles) ==
    solveBezierConstraintsFrom(particles, s.bezierConstraints,
                               s.config.continuityStiffness, 1)

\* The correction of a distance constraint, shared by inverse mass; nothing
\* moves when both particles are pinned.
ApplyCorrectionBad(particles, c, correctionX, correctionY) ==
    LET p1 == particles[c.p1]
        p2 == particles[c.p2]
    IN [particles EXCEPT
          ![c.p1] = [p1 EXCEPT !.x = p1.x + correctionX \div 2,
                               !.y = p1.y + correctionY \div 2],
          ![c.p2] = [p2 EXCEPT !.x = p2.x - correctionX \div 2,
                               !.y = p2.y - correctionY \div 2]]

ApplyCorrection(particles, c, correctionX, correctionY) ==
    LET p1 == particles[c.p1]
        p2 == particles[c.p2]
        totalInvMass == p1.invMass + p2.invMass
    IN IF totalInvMass > 0
       THEN [particles EXCEPT
               ![c.p1] = [p1 EXCEPT
                            !.x = p1.x + (correctionX * p1.invMass)
                                            \div totalInvMass,
                            !.y = p1.y + (correctionY * p1.invMass)
                                            \div totalInvMass],
               ![c.p2] = [p2 EXCEPT
                            !.x = p2.x - (correctionX * p2.invMass)
                                            \div totalInvMass,
                            !.y = p2.y - (correctionY * p2.invMass)
                                            \div totalInvMass]]
       ELSE particles

\* dx * ((currentLength - targetLength) / currentLength) * 0.5 * stiffness
Correction(d, currentLength, targetLength, stiffness) ==
    (OverLength(d * (currentLength - targetLength), currentLength)
        * stiffness) \div 200

\* One distance constraint: a rest length under 5.0 is always corrected
\* with stiffness 0.9, a longer one only outside
\* (1 / maxStretchRatio, maxStretchRatio), toward the nearer limit.
DistanceStep(particles, c, maxStretchRatio) ==
    LET dx == particles[c.p2].x - particles[c.p1].x
        dy == particles[c.p2].y - particles[c.p1].y
    IN Bind(Length(dx, dy), LAMBDA currentLength :
        IF c.restLength < 5 * SolverScale
        THEN ApplyCorrection(particles, c,
                 Correction(dx, currentLength, c.restLength, 90),
                 Correction(dy, currentLength, c.restLength, 90))
        ELSE IF /\ currentLength * 100 < c.restLength * maxStretchRatio
                /\ currentLength * maxStretchRatio > c.restLength * 100
        THEN particles
        ELSE LET targetLength ==
                     IF currentLength > c.restLength
                     THEN (c.restLength * maxStretchRatio) \div 100
                     ELSE (c.restLength * 100) \div maxStretchRatio
             IN ApplyCorrection(particles, c,
                    Correction(dx, currentLength, targetLength, c.stiffness),
                    Correction(dy, currentLength, targetLength, c.stiffness)))

RECURSIVE solveDistanceConstraintsFrom(_, _, _, _)
solveDistanceConstraintsFrom(particles, constraints, maxStretchRatio, k) ==
    IF k > Len(constraints) THEN particles
    ELSE Bind(DistanceStep(particles, constraints[k], maxStretchRatio),
              LAMBDA ps : solveDistanceConstraintsFrom(ps, constraints,
                                                       maxStretchRatio, k + 1))

solveDistanceConstraints(s, particles) ==
    solveDistanceConstraintsFrom(particles, s.distanceConstraints,
                                 s.config.maxStretchRatio, 1)

\* currentLength / restLength in IEEE arithmetic, in hundredths.
StretchRatio(currentLength, restLength) ==
    IF restLength = 0
    THEN (IF currentLength = 0 THEN NaN ELSE Infinity)
    ELSE (currentLength * 100) \div restLength

AddRatio(a, b) ==
    IF a = NaN \/ b = NaN THEN NaN
    ELSE IF a = Infinity \/ b = Infinity THEN Infinity
    ELSE a + b

RECURSIVE SumRatios(_, _)
SumRatios(ratios, ks) ==
    IF ks = {} THEN 100
    ELSE LET k == CHOOSE j \in ks : TRUE
         IN AddRatio(ratios[k], SumRatios(ratios, ks \ {k}))

\* updateStretchRatios: per particle 1.0 plus the ratios of its distance
\* constraints, over their number; 1.0 for a particle without constraint.
updateStretchRatios(s, particles) ==
    LET ratios == [k \in DOMAIN s.distanceConstraints |->
                     LET c == s.distanceConstraints[k]
                     IN StretchRatio(
                            Length(particles[c.p2].x - particles[c.p1].x,
                                   particles[c.p2].y - particles[c.p1].y),
                            c.restLength)]
    IN [i \in DOMAIN particles |->
          LET ks == {k \in DOMAIN s.distanceConstraints :
                       s.distanceConstraints[k].p1 = i
                         \/ s.distanceConstraints[k].p2 = i}
          IN Bind(SumRatios(ratios, ks), LAMBDA sum :
                 IF ks = {} \/ sum \in {NaN, Infinity} THEN sum
                 ELSE sum \div Cardinality(ks))]

\* One solver iteration: anchors, bezier continuity, distances.
RECURSIVE Iterate(_, _, _)
Iterate(s, particles, iter) ==
    IF iter >= s.config.iterations THEN particles
    ELSE Bind(solveAnchorConstraints(s, particles), LAMBDA ps1 :
         Bind(solveBezierConstraints(s, ps1), LAMBDA ps2 :
         Bind(solveDistanceConstraints(s, ps2), LAMBDA ps3 :
              Iterate(s, ps3, iter + 1))))

\* solve(): damping, the iterations, then the stretch ratios.
solve(s) ==
    Bind(Iterate(s, applyDamping(s.particles, s.config.velocityDamping), 0),
         LAMBDA ps :
            [s EXCEPT !.particles = ps,
                      !.stretchRatios = updateStretchRatios(s, ps)])

\* getPositions(): the positions are copied to the output buffer.
getPositions(s) ==
    [s EXCEPT !.outputCoords =
        [c \in DOMAIN s.outputCoords |->
            IF c % 2 = 1 THEN s.particles[(c + 1) \div 2].x
            ELSE s.particles[c \div 2].y]]

\* reset(): every particle back at its base position, stretch ratios 1.0.
resetBad(s) ==
    [s EXCEPT
       !.particles = [i \in DOMAIN s.particles |->
                        [s.particles[i] EXCEPT
                           !.x = s.particles[i].baseX,
                           !.y = s.particles[i].baseY]],
       !.stretchRatios = [i \in DOMAIN s.stretchRatios |-> 100]]

reset(s) ==
    [s EXCEPT
       !.particles = [i \in DOMAIN s.particles |->
                        [s.particles[i] EXCEPT
                           !.x = s.particles[i].baseX,
                           !.y = s.particles[i].baseY,
                           !.prevX = s.particles[i].baseX,
                           !.prevY = s.particles[i].baseY]],
       !.stretchRatios = [i \in DOMAIN s.stretchRatios |-> 100]]

\* updateAnchorInfluence: new inverse masses, anchor constraints rebuilt.
updateAnchorInfluence(s, anchorInfluence) ==
    LET particles == [i \in DOMAIN s.particles |->
                        [s.particles[i] EXCEPT !.invMass = anchorInfluence[i]]]
    IN [s EXCEPT !.particles = particles,
                 !.anchorConstraints =
                     buildAnchorConstraints(particles, anchorInfluence)]

\* setConfig({ iterations })
setConfig(s, iterations) ==
    [s EXCEPT !.config = [s.config EXCEPT !.iterations = iterations]]

(***************************************************************************)
(* The solver's operations.  lastCall records the latest call, whether     *)
(* the call before it was applyDisplacements, and, for reset, the solver   *)
(* before the call.                                                        *)
(***************************************************************************)
MaxSolverOps == 5

Call(op, before) ==
    [op |-> op, afterApply |-> lastCall.op = "applyDisplacements",
     before |-> before]

PBDApplyDisplacements(displacements) ==
    /\ solverOps < MaxSolverOps
    /\ solver' = applyDisplacements(solver, displacements)
    /\ solverOps' = solverOps + 1
    /\ lastCall' = Call("applyDisplacements", NullSolver)
    /\ UNCHANGED <<parserVars, engineVars, animatorVars, fieldVars>>

PBDSolve ==
    /\ solverOps < MaxSolverOps
    /\ solver' = solve(solver)
    /\ solverOps' = solverOps + 1
    /\ lastCall' = Call("solve", NullSolver)
    /\ UNCHANGED <<parserVars, engineVars, animatorVars, fieldVars>>

PBDGetPositions ==
    /\ solverOps < MaxSolverOps
    /\ solver' = getPositions(solver)
    /\ solverOps' = solverOps + 1
    /\ lastCall' = Call("getPositions", NullSolver)
    /\ UNCHANGED <<parserVars, engineVars, animatorVars, fieldVars>>

PBDReset ==
    /\ solverOps < MaxSolverOps
    /\ solver' = reset(solver)
    /\ solverOps' = solverOps + 1
    /\ lastCall' = Call("reset", solver)
    /\ UNCHANGED <<parserVars, engineVars, animatorVars, fieldVars>>

PBDUpdateAnchorInfluence(anchorInfluence) ==
    /\ solverOps < MaxSolverOps
    /\ solver' = updateAnchorInfluence(solver, anchorInfluence)
    /\ solverOps' = solverOps + 1
    /\ lastCall' = Call("updateAnchorInfluence", NullSolver)
    /\ UNCHANGED <<parserVars, engineVars, animatorVars, fieldVars>>

PBDSetConfig(iterations) ==
    /\ solverOps < MaxSolverOps
    /\ solver' = setConfig(solver, iterations)
    /\ solverOps' = solverOps + 1
    /\ lastCall' = Call("setConfig", NullSolver)
    /\ UNCHANGED <<parserVars, engineVars, animatorVars, fieldVars>>

(***************************************************************************)
(* The inputs of the solver: a path M L C C Z of 8 points whose first      *)
(* cubic starts with a control point on the point before it (a rest        *)
(* length and a tangent of length 0) and whose second cubic ends with a    *)
(* short edge; influence fields with free, half-free and pinned points;    *)
(* displacements that stretch the edges.                                   *)
(***************************************************************************)
SolverPath ==
    [commands |-> <<CMD_M, CMD_L, CMD_C, CMD_C, CMD_Z>>,
     coords |-> [c \in 1..16 |->
                   <<0, 0, 10, 0, 10, 0, 30, 10, 30, 20,
                     30, 30, 13, 40, 10, 40>>[c] * SolverScale]]

SolverFields ==
    {[i \in 1..8 |-> InfluenceOne],
     [i \in 1..8 |-> 0],
     <<0, InfluenceOne, InfluenceOne, 5000, InfluenceOne, 0, 9000,
       InfluenceOne>>}

SolverDisplacements ==
    {[c \in 1..16 |-> 0],
     [c \in 1..16 |-> IF c % 4 = 1 THEN 60 * SolverScale
                      ELSE IF c % 4 = 3 THEN -60 * SolverScale
                      ELSE 5 * SolverScale],
     [c \in 1..16 |-> IF c <= 8 THEN -3 * SolverScale ELSE 7 * SolverScale]}

SolverIterations == {1, 8}

InitSolver ==
    /\ \E anchorInfluence \in SolverFields :
         solver = NewSolver(SolverPath, anchorInfluence)
    /\ solverOps = 0
    /\ lastCall = NoCall
    /\ NoField
    /\ tokens = <<>>
    /\ parser = ParserInit
    /\ emitted = NoGroup
    /\ parsedPath = NoPath
    /\ engine = NullEngine
    /\ lastGen = NoGen
    /\ NoAnimator

NextSolver ==
    \/ \E displacements \in SolverDisplacements :
         PBDApplyDisplacements(displacements)
    \/ PBDSolve
    \/ PBDGetPositions
    \/ PBDReset
    \/ \E anchorInfluence \in SolverFields :
         PBDUpdateAnchorInfluence(anchorInfluence)
    \/ \E iterations \in SolverIterations : PBDSetConfig(iterations)

SpecSolver == InitSolver /\ [][NextSolver]_vars

(***************************************************************************)
(* Claims about the animator                                               *)
(***************************************************************************)

\* The latest operation wrote the output buffer: a live tick or renderAtTime.
Updated == animator # NullAnimator /\ lastOp \in {"tick", "render"}

AtBase(c) == animator.animatedCoords[c] = animator.baseCoords[c] * OutScale

\* C1: after a live tick or a renderAtTime call, every point whose influence
\* is exactly 0 has its output coordinates equal to its base coordinates, in
\* every motion style.
C1_PinnedPointsStay ==
    Updated =>
        \A i \in DOMAIN animator.influence :
            animator.influence[i] = 0 => AtBase(2 * i - 1) /\ AtBase(2 * i)

\* An eldritch update displaced a free point while the engine's displacement
\* of a point with influence 0 was not zero.
C1_Witness ==
    /\ Updated
    /\ animator.params.motionType = "eldritch"
    /\ engine # NullEngine
    /\ \E i \in DOMAIN animator.influence :
           /\ animator.influence[i] = 0
           /\ engine.cachedDisplacements[2 * i] # 0
    /\ \E c \in DOMAIN animator.animatedCoords : ~AtBase(c)

\* C2: with a loop period P > 0, renderAtTime(P) right after renderAtTime(0)
\* leaves the buffer renderAtTime(0) left.
C2_RenderAtPeriodIsRenderAtZero ==
    (zeroRender.rendered /\ zeroRender.atPeriod) =>
        animator.animatedCoords = zeroRender.coords

\* renderAtTime(0) and then renderAtTime(P) ran in eldritch style and left a
\* buffer that is not the base path.
C2_Witness ==
    /\ zeroRender.rendered
    /\ zeroRender.atPeriod
    /\ animator.params.motionType = "eldritch"
    /\ engine # NullEngine
    /\ \E c \in DOMAIN animator.animatedCoords : ~AtBase(c)

\* The buffer renderAtTime leaves on a newly built animator given the
\* influence, the parameters and the time of this one.
FreshRender(random) ==
    updatePoints([NewAnimator(parsedPath) EXCEPT
                     !.influence = animator.influence,
                     !.params = animator.params,
                     !.time = animator.time],
                 IF engine = NullEngine THEN NullEngine
                 ELSE NewEngine(parsedPath, animator.influence),
                 random).coords

\* C3: the buffer renderAtTime(t) leaves is the one a second animator built
\* from the same path, influence and parameters leaves for the same t, in
\* every motion style.
C3_RenderDependsOnInputsOnly ==
    (animator # NullAnimator /\ lastOp = "render") =>
        \A random \in RandomSeeds : animator.animatedCoords = FreshRender(random)

\* C4: with a loop period P > 0, after a live tick or a renderAtTime call
\* the simulation time is in [0, P).
C4_TimeWithinLoopPeriod ==
    (Updated /\ animator.params.loopPeriod > 0) =>
        animator.time >= 0 /\ animator.time < animator.params.loopPeriod

\* A live tick ran with a loop period set and time advancing.
C4_Witness ==
    /\ animator # NullAnimator
    /\ lastOp = "tick"
    /\ animator.params.loopPeriod > 0
    /\ animator.lastTimestamp > 0
    /\ animator.time < 59

\* C5: between stop() and the next start(), an animation-frame callback
\* is no tick and changes neither the simulation time nor the output buffer.
C5_NoTickAfterStop ==
    [][(stopped /\ lastOp' \in {"tick", "frame"}) =>
          /\ lastOp' # "tick"
          /\ animator'.time = animator.time
          /\ animator'.animatedCoords = animator.animatedCoords]_vars

\* stop() returned on an animator that had ticked; its callback is cancelled.
C5_Witness ==
    /\ stopped
    /\ animator # NullAnimator
    /\ animator.lastTimestamp > 0
    /\ animator.time > 0
    /\ frames = {}

(***************************************************************************)
(* Claims about the focus schedule                                         *)
(***************************************************************************)

HasSchedule == engine # NullEngine /\ engine.schedule # NullSchedule

\* The mapped point index of a focus and the ANCHOR_CHECK_RADIUS points on
\* either side (indices modulo the number of points) all have an anchor
\* influence of at least the threshold, in the influence array the schedule
\* was generated with.
CleanNeighbourhood(focus) ==
    LET pointIdx == tToPointIndex(engine, focus.pathT)
        numPoints == Len(lastGen.influence)
    IN \A offset \in (-ANCHOR_CHECK_RADIUS)..ANCHOR_CHECK_RADIUS :
           lastGen.influence[((pointIdx + offset + numPoints) % numPoints) + 1]
               >= ANCHOR_INFLUENCE_THRESHOLD

\* C6 as stated: every focus of every generated schedule lies at a path
\* parameter whose neighbourhood holds no point with influence below 0.3.
C6_FociAvoidAnchors ==
    HasSchedule =>
        \A j \in DOMAIN engine.schedule.foci :
            CleanNeighbourhood(engine.schedule.foci[j])

\* C6 amended: every focus of every generated schedule lies at a path
\* parameter whose neighbourhood holds no point with influence below 0.3,
\* or was accepted on its 20th placement attempt.
C6_FociAvoidAnchorsOrLastAttempt ==
    HasSchedule =>
        \A j \in DOMAIN engine.schedule.foci :
            \/ CleanNeighbourhood(engine.schedule.foci[j])
            \/ engine.schedule.foci[j].attempts = MaxAttempts

\* A schedule generated next to an anchor holds a focus that was placed in a
\* clean neighbourhood after candidates had been rejected.
C6_Witness ==
    /\ HasSchedule
    /\ lastGen.influence = AnchoredField
    /\ \E j \in DOMAIN engine.schedule.foci :
           /\ engine.schedule.foci[j].attempts > 1
           /\ engine.schedule.foci[j].attempts < MaxAttempts
           /\ CleanNeighbourhood(engine.schedule.foci[j])

\* C7: every schedule generated for a loop period P > 0 has
\* totalDuration <= P.
C7_TotalDurationWithinLoopPeriod ==
    (HasSchedule /\ engine.scheduleLoopPeriod > 0) =>
        engine.schedule.totalDuration <= engine.scheduleLoopPeriod

\* C8: the schedule a call with an explicit seed leaves is the schedule a
\* newly constructed engine generates for the same seed, loop period,
\* parameters and anchor influence, whatever the engine generated before.
C8_SameSeedSameSchedule ==
    (HasSchedule /\ lastGen.explicit) =>
        engine.schedule =
            EngineGenerate(NewEngine(parsedPath, lastGen.influence), lastGen.loopPeriod,
                           lastGen.params, lastGen.seed, 0).schedule

\* An engine that held a schedule regenerated one with an explicit seed.
C8_Witness ==
    /\ HasSchedule
    /\ lastGen.explicit
    /\ lastGen.earlier
    /\ Len(engine.schedule.foci) >= 2

\* C21: the schedule a calculateDisplacements call leaves in use is the one
\* generateSchedule gives for the parameters of that call and the anchor
\* influence the engine holds, not one generated before they changed.
C21_ScheduleFollowsParamsAndInfluence ==
    (HasSchedule /\ lastGen.calc) =>
        engine.schedule =
            EngineGenerate(NewEngine(parsedPath, engine.anchorInfluence),
                           lastGen.loopPeriod, lastGen.calcParams,
                           lastGen.seed, 0).schedule

(***************************************************************************)
(* Claims about parsePath                                                  *)
(***************************************************************************)
Count(seq, c) == Cardinality({k \in DOMAIN seq : seq[k] = c})

\* C9: when parsePath returns, coords holds exactly
\* #Move + #Line + 3 * #Cubic coordinate pairs (Close consumes none).
C9_CoordsMatchCommands ==
    parser.pc = "returned" =>
        Len(parser.coordsList) =
            2 * (Count(parser.commands, CMD_M) + Count(parser.commands, CMD_L)
                 + 3 * Count(parser.commands, CMD_C))

\* C9 witness: a returned parse that emitted Move, Line, Cubic and Close.
C9_Witness ==
    /\ parser.pc = "returned"
    /\ \A c \in {CMD_M, CMD_L, CMD_C, CMD_Z} : Count(parser.commands, c) > 0

\* The output positions that hold the explicit arguments of a complete
\* group of command u, in argument order (Q: the end point, arguments 3, 4).
ArgSlots(u) ==
    CASE u \in {"M", "L"} -> <<1, 2>>
      [] u = "H" -> <<1>>
      [] u = "V" -> <<2>>
      [] u = "C" -> <<1, 2, 3, 4, 5, 6>>
      [] u = "S" -> <<3, 4, 5, 6>>
      [] u = "Q" -> <<5, 6>>
      [] OTHER -> <<>>

\* C10: the origin offset is added to the first move command's coordinates
\* and to every subsequent absolute coordinate (M, L, H, V, C, S, Q,
\* implicit line-to pairs included), and never to a relative coordinate.
C10_OffsetOnEveryAbsolute ==
    LET g == emitted
        u == toUpperCase(g.letter)
        abs == ~isRelativeCmd(g.letter)
        offset == abs \/ (u = "M" /\ g.first)
        slots == ArgSlots(u)
        firstArg == g.n - Len(slots)
        Claimed(k) ==
            LET a == g.args[firstArg + k]
                isX == slots[k] % 2 = 1
            IN a + (IF abs THEN 0 ELSE IF isX THEN g.curX ELSE g.curY)
                 + (IF ~offset THEN 0 ELSE IF isX THEN OffsetX ELSE OffsetY)
    IN (/\ slots # <<>>
        /\ g.n = Arity(u)
        /\ \A k \in 1..g.n : g.args[k] # NaN
        /\ g.curX # NaN /\ g.curY # NaN)
       => \A k \in 1..Len(slots) : g.out[slots[k]] = Claimed(k)

\* The number of number tokens that directly follow position j.
RECURSIVE RunLength(_)
RunLength(j) ==
    IF j + 1 > Len(tokens) THEN 0
    ELSE IF tokens[j + 1].isCmd THEN 0
    ELSE 1 + RunLength(j + 1)

LetterPositions == {j \in DOMAIN tokens : tokens[j].isCmd}

\* A malformed token stream: a number before any command letter, or a
\* command letter followed by fewer numbers than the command requires.
Malformed ==
    \/ tokens # <<>> /\ ~tokens[1].isCmd
    \/ \E j \in LetterPositions : RunLength(j) < Arity(tokens[j].letter)

\* C11: a malformed token stream fails the whole parse: parsePath does not
\* return a result for it.
C11_MalformedFailsParse ==
    parser.pc = "returned" => ~Malformed

\* The output command of a command letter.
OutputCommand(u) ==
    CASE u = "M" -> CMD_M
      [] u \in {"L", "H", "V"} -> CMD_L
      [] u \in {"C", "S", "Q", "T"} -> CMD_C
      [] OTHER -> CMD_Z

\* The tokens at at .. at + n - 1 are all numbers.
NumbersAt(at, n) ==
    \A k \in 0..(n - 1) : at + k <= Len(tokens) /\ ~tokens[at + k].isCmd

\* Every letter is followed by whole argument groups (Z by none).
WellFormed ==
    /\ tokens # <<>> /\ tokens[1].isCmd
    /\ \A j \in LetterPositions :
         LET a == Arity(tokens[j].letter)
         IN IF a = 0 THEN RunLength(j) = 0
            ELSE RunLength(j) > 0 /\ RunLength(j) % a = 0

RECURSIVE GroupCount(_)
GroupCount(j) ==
    IF j > Len(tokens) THEN 0
    ELSE IF ~tokens[j].isCmd THEN GroupCount(j + 1)
    ELSE LET a == Arity(tokens[j].letter)
         IN (IF a = 0 THEN 1 ELSE RunLength(j) \div a) + GroupCount(j + 1)

\* C12: every complete argument group of M, L, C, S, Q, T, H, V (absolute
\* or relative) contributes exactly one output command of its kind (a T
\* group a Cubic), and a path of complete groups returns one command per
\* group, Z included.
C12_OneCommandPerGroup ==
    /\ LET u == toUpperCase(emitted.letter)
       IN (u \in UpperLetters \ {"Z"} /\ NumbersAt(emitted.at, Arity(u)))
          => emitted.cmds = <<OutputCommand(u)>>
    /\ (parser.pc = "returned" /\ WellFormed)
          => Len(parser.commands) = GroupCount(1)

\* C13: a complete S/s group emits as first control point the reflection
\* of the previous cubic's second control point about the current point
\* when the previous command was C or S, and the current point when it was
\* M, L, H, V or Z.
C13_SmoothReflection ==
    LET g == emitted
        before == Len(parser.coordsList) - 6
        prevX2 == parser.coordsList[before - 3]
        prevY2 == parser.coordsList[before - 2]
    IN (/\ toUpperCase(g.letter) = "S"
        /\ NumbersAt(g.at, 4)
        /\ g.curX # NaN /\ g.curY # NaN /\ g.lcX # NaN /\ g.lcY # NaN)
       => /\ g.prev \in {"C", "S"}
             => /\ g.out[1] = 2 * g.curX - prevX2
                /\ g.out[2] = 2 * g.curY - prevY2
          /\ g.prev \in {"M", "L", "H", "V", "Z"}
             => /\ g.out[1] = g.curX
                /\ g.out[2] = g.curY

(***************************************************************************)
(* Claims about computeInfluenceMap                                        *)
(***************************************************************************)
MapPoints == DOMAIN influenceMap.influence

\* C14: for falloffRadius > 0 the influence of a point is 0 at distance 0
\* from its nearest anchor, 1 at a distance of falloffRadius or more, and
\* never smaller for a point that is farther from its nearest anchor.
C14_InfluenceBoundaryAndMonotone ==
    (influenceMap.computed /\ influenceMap.falloffRadius > 0) =>
        /\ \A i \in MapPoints :
             /\ influenceMap.minDist[i] = 0 => influenceMap.influence[i] = 0
             /\ influenceMap.minDist[i] >= influenceMap.falloffRadius
                  => influenceMap.influence[i] = InfluenceOne
        /\ \A i, j \in MapPoints :
             influenceMap.minDist[i] <= influenceMap.minDist[j]
                => influenceMap.influence[i] <= influenceMap.influence[j]

\* C14 witness: a map with a point on an anchor, a point inside the falloff
\* radius with an influence strictly between 0 and 1, and a point beyond it.
C14_Witness ==
    /\ influenceMap.computed
    /\ influenceMap.falloffRadius > 0
    /\ \E i, j, k \in MapPoints :
         /\ influenceMap.minDist[i] = 0
         /\ influenceMap.minDist[j] > 0
         /\ influenceMap.minDist[j] < influenceMap.falloffRadius
         /\ influenceMap.influence[j] > 0
         /\ influenceMap.influence[j] < InfluenceOne
         /\ influenceMap.minDist[k] >= influenceMap.falloffRadius
         /\ influenceMap.minDist[k] # Infinity

\* C15: for falloffRadius <= 0 no influence is NaN and every point at a
\* distance above 0 from all anchors has influence 1.
C15_DegenerateRadius ==
    (influenceMap.computed /\ influenceMap.falloffRadius <= 0) =>
        \A i \in MapPoints :
            /\ influenceMap.influence[i] # NaN
            /\ influenceMap.minDist[i] > 0
                 => influenceMap.influence[i] = InfluenceOne

\* C16: computeInfluenceMap translates each anchor by the offset parsePath
\* added to the path points, same sign and magnitude.
C16_AnchorsTranslatedLikePath ==
    influenceMap.computed =>
        \A k \in DOMAIN influenceMap.anchors :
            /\ influenceMap.transformedAnchors[k].x
                 = influenceMap.anchors[k].x + OffsetX
            /\ influenceMap.transformedAnchors[k].y
                 = influenceMap.anchors[k].y + OffsetY

(***************************************************************************)
(* Claims about the PBD solver                                             *)
(***************************************************************************)
Solved == lastCall.op = "solve"

AtBasePosition(p) == p.x = p.baseX /\ p.y = p.baseY

\* C17: after applyDisplacements followed by solve, every particle with
\* invMass = 0 is exactly at its base position, whatever calls came before
\* (with all invMass = 0: every particle).
C17_PinnedParticlesAtBase ==
    (Solved /\ lastCall.afterApply) =>
        \A i \in DOMAIN solver.particles :
            solver.particles[i].invMass = 0
                => AtBasePosition(solver.particles[i])

\* C17 witness: a solve after applyDisplacements that left a pinned particle
\* next to a free one that is off its base position.
C17_Witness ==
    /\ Solved /\ lastCall.afterApply
    /\ \E k \in DOMAIN solver.distanceConstraints :
         LET c == solver.distanceConstraints[k]
         IN /\ solver.particles[c.p1].invMass = 0
            /\ solver.particles[c.p2].invMass > 0
            /\ ~AtBasePosition(solver.particles[c.p2])

EdgeLength(c) ==
    Length(solver.particles[c.p2].x - solver.particles[c.p1].x,
           solver.particles[c.p2].y - solver.particles[c.p1].y)

\* C18: after solve, every distance-constrained edge with a particle of
\* non-zero inverse mass is no longer than restLength * maxStretchRatio
\* (one hundredth of rounding allowed).
C18_BoundedStretch ==
    Solved =>
        \A k \in DOMAIN solver.distanceConstraints :
            LET c == solver.distanceConstraints[k]
            IN (solver.particles[c.p1].invMass # 0
                  \/ solver.particles[c.p2].invMass # 0)
               => EdgeLength(c) * 100
                    <= c.restLength * solver.config.maxStretchRatio + 100

\* C19: reset() puts every particle's current and previous position at its
\* base position and every stretch ratio at 1.0, and leaves the inverse
\* masses, the constraints, the configuration and the output buffer as
\* they were.
C19_ResetRestoresOnly ==
    lastCall.op = "reset" =>
        /\ \A i \in DOMAIN solver.particles :
             LET p == solver.particles[i]
             IN /\ AtBasePosition(p)
                /\ p.prevX = p.baseX /\ p.prevY = p.baseY
                /\ p.invMass = lastCall.before.particles[i].invMass
                /\ p.baseX = lastCall.before.particles[i].baseX
                /\ p.baseY = lastCall.before.particles[i].baseY
        /\ \A i \in DOMAIN solver.stretchRatios : solver.stretchRatios[i] = 100
        /\ solver.distanceConstraints = lastCall.before.distanceConstraints
        /\ solver.bezierConstraints = lastCall.before.bezierConstraints
        /\ solver.anchorConstraints = lastCall.before.anchorConstraints
        /\ solver.config = lastCall.before.config
        /\ solver.outputCoords = lastCall.before.outputCoords

\* C19 witness: a reset of a solver whose particles had moved, with a
\* velocity, and whose stretch ratios were not all 1.0.
C19_Witness ==
    /\ lastCall.op = "reset"
    /\ \E i \in DOMAIN solver.particles :
         LET q == lastCall.before.particles[i]
         IN /\ ~AtBasePosition(q)
            /\ (q.prevX # q.x \/ q.prevY # q.y)
            /\ (q.prevX # q.baseX \/ q.prevY # q.baseY)
    /\ \E i \in DOMAIN solver.stretchRatios :
         lastCall.before.stretchRatios[i] # 100

\* C20: with a distance constraint of rest length 0 and a tangent of
\* length 0 in the path, solve() leaves no NaN and no Infinity in the
\* stretch ratios (the model's positions are numbers by construction).
C20_NoNaNFromZeroLengths ==
    (/\ Solved
     /\ \E k \in DOMAIN solver.distanceConstraints :
          solver.distanceConstraints[k].restLength = 0)
    => \A i \in DOMAIN solver.stretchRatios :
          solver.stretchRatios[i] \notin {NaN, Infinity}

(***************************************************************************)
(* Further claims about the animator                                       *)
(***************************************************************************)

\* C26: after an update in any motion style, every point whose influence is
\* below 0.001 holds exactly its base coordinates.
C26_BelowThresholdStaysAtBase ==
    Updated =>
        \A i \in DOMAIN animator.influence :
            animator.influence[i] < PinnedWeight
                => AtBase(2 * i - 1) /\ AtBase(2 * i)

\* C29: at any moment at most one animation-frame callback of the animator
\* is pending, and the pending one is the one rafId names, of a running
\* animator, under every interleaving of start(), stop() and delivered
\* callbacks.
C29_AtMostOneFramePending ==
    /\ Cardinality(frames) <= 1
    /\ frames # {} => (animator.running /\ frames = {animator.rafId})

\* A running animator whose delivered callback, some time after start(),
\* has scheduled the next one.
C29_Witness ==
    /\ animator # NullAnimator
    /\ animator.running
    /\ lastOp = "tick"
    /\ now > 0
    /\ frames = {animator.rafId}

(***************************************************************************)
(* Claims about the loop of generateSchedule                               *)
(***************************************************************************)

\* The loop of generateSchedule as it stood when it ended, for the call that
\* generated the engine's schedule: every wave and rest period, untrimmed.
LastBuilt ==
    Waves(NewEngine(parsedPath, lastGen.influence), lastGen.influence,
          ClampParams(lastGen.params), lastGen.loopPeriod,
          [rng |-> RngNew(lastGen.seed), currentTime |-> 0,
           foci |-> <<>>, restPeriods |-> <<>>])

\* currentTime at the head of iteration j of the loop.
WaveStart(built, j) == IF j = 1 THEN 0 ELSE built.restPeriods[j - 1].end

\* C23: generateSchedule ends: every iteration of its loop moves currentTime
\* forward by at least the clamped minimum focus duration, itself at least
\* 0.1 s, so that the loop runs at most loopPeriod / 0.1 times (rounded up).
C23_EveryWaveAdvances ==
    HasSchedule =>
        \E built \in {LastBuilt} :
            /\ \A j \in DOMAIN built.restPeriods :
                   /\ built.restPeriods[j].start
                        >= WaveStart(built, j)
                             + Max(10, lastGen.params.focusDurationMin)
                   /\ built.restPeriods[j].end >= built.restPeriods[j].start
            /\ (Len(built.restPeriods) - 1) * 10 < lastGen.loopPeriod
            /\ ~(built.currentTime < lastGen.loopPeriod)

\* A schedule generated from zero or negative durations with each maximum
\* below its minimum, whose waves advance by exactly 0.1 s.
C23_Witness ==
    /\ HasSchedule
    /\ lastGen.params = InvertedFocusParams
    /\ Len(engine.schedule.restPeriods) * 10 >= lastGen.loopPeriod

\* C24: in a schedule no focus is active inside a rest period: the time a
\* focus is active, from its start to the end of its decay, lies wholly
\* before the start or wholly after the end of every rest period.
C24_NoFocusDuringRest ==
    HasSchedule =>
        \A j \in DOMAIN engine.schedule.foci :
            \A k \in DOMAIN engine.schedule.restPeriods :
                \/ FocusEnd(engine.schedule.foci[j])
                     <= engine.schedule.restPeriods[k].start
                \/ engine.schedule.foci[j].startTime
                     >= engine.schedule.restPeriods[k].end

\* A schedule with a rest period of positive length that follows a wave of
\* two staggered foci and is followed by another focus.
C24_Witness ==
    /\ HasSchedule
    /\ \E k \in DOMAIN engine.schedule.restPeriods :
          \E r \in {engine.schedule.restPeriods[k]} :
            /\ r.end > r.start
            /\ \E i, j \in DOMAIN engine.schedule.foci :
                  /\ i # j
                  /\ engine.schedule.foci[i].startTime
                       < engine.schedule.foci[j].startTime
                  /\ FocusEnd(engine.schedule.foci[i]) > engine.schedule.foci[j].startTime
                  /\ Max(FocusEnd(engine.schedule.foci[i]),
                         FocusEnd(engine.schedule.foci[j])) = r.start
            /\ \E j \in DOMAIN engine.schedule.foci :
                  engine.schedule.foci[j].startTime >= r.end

\* The index of a motion style in MotionStyles.
StyleIndex(style) == CHOOSE j \in DOMAIN MotionStyles : MotionStyles[j] = style

\* C28: when a motion style weight is positive after the clamp to 0, no
\* focus of a generated schedule has a motion style whose clamped weight
\* is 0, whatever the random numbers drawn.
C28_NoZeroWeightStyle ==
    (/\ HasSchedule
     /\ \E j \in 1..4 : lastGen.params.motionWeights[j] > 0)
        => \A j \in DOMAIN engine.schedule.foci :
               lastGen.params.motionWeights[
                   StyleIndex(engine.schedule.foci[j].motionStyle)] > 0

(***************************************************************************)
(* Claims about the token loop of parsePath                                *)
(***************************************************************************)

\* C22: every iteration of the token loop consumes at least one token (the
\* index i grows), so that the loop ends on every token list.
C22_EveryIterationConsumes ==
    [][parser'.pc = "loop" => parser'.i > parser.i]_vars

\* The distance constraints incident to particle i.
Incident(i) ==
    {k \in DOMAIN solver.distanceConstraints :
        solver.distanceConstraints[k].p1 = i \/ solver.distanceConstraints[k].p2 = i}

\* currentLength / restLength of a distance constraint, in hundredths.
LengthRatio(k) ==
    (EdgeLength(solver.distanceConstraints[k]) * 100)
        \div solver.distanceConstraints[k].restLength

RECURSIVE RatioSum(_)
RatioSum(ks) ==
    IF ks = {} THEN 0
    ELSE LET k == CHOOSE j \in ks : TRUE
         IN LengthRatio(k) + RatioSum(ks \ {k})

\* C27: after solve, the stretch ratio of every particle with at least one
\* incident distance constraint (all of positive rest length) is the
\* average of currentLength / restLength over its incident constraints.
C27_StretchRatioIsAverage ==
    Solved =>
        \A i \in DOMAIN solver.particles :
            (/\ Incident(i) # {}
             /\ \A k \in Incident(i) : solver.distanceConstraints[k].restLength > 0)
                => solver.stretchRatios[i]
                     = RatioSum(Incident(i)) \div Cardinality(Incident(i))

(***************************************************************************)
(* Claims about the components around the animator                         *)
(***************************************************************************)

\* C25: once every influence recomputation started by a change of the
\* falloff radius or of the anchors has finished, the animator's influence
\* is the one computed from the latest radius and anchors, whatever the
\* order in which the recomputations finished.
C25_LatestInfluenceWins ==
    (/\ recomputes.started > 0
     /\ recomputes.pending = {})
        => animator.influence
             = RecomputedInfluence(recomputes.anchorsData, recomputes.falloffRadius)

\* C30: when an export run ends, with the blob downloaded or with an error
\* thrown while capturing or encoding, the animator's loop period is the
\* one it had when the run started.
C30_ExportRestoresLoopPeriod ==
    lastOp = "exportEnd"
        => animator.params.loopPeriod = exportRun.previousLoopPeriod

\* An export run that changed a loop period above 0 and ended by an error
\* thrown after a frame was captured.
C30_Witness ==
    /\ lastOp = "exportEnd"
    /\ exportRun.ended = "error"
    /\ exportRun.i >= 1
    /\ exportRun.previousLoopPeriod > 0
    /\ exportRun.previousLoopPeriod # exportRun.loopSpan


=============================================================================
